---- MODULE Spec2Model ----
(***************************************************************************)
(* Recurring-task tracker (zachromers/Child-Task-Tracker).                 *)
(*                                                                         *)
(* The model follows the final, ledger-based server (src/unnamed/part_002):*)
(* categories, tasks and the task_completions ledger held in one sql.js    *)
(* database, the request handlers that act on it, the calendar helpers     *)
(* that derive a task's completion status, and the retention sweep.        *)
(*                                                                         *)
(* Dates.  A JavaScript Date is modelled by its local calendar fields      *)
(* <<year, month (1..12), day>>; the constructor and the setters turn      *)
(* out-of-range fields into a date by way of the day number (days since    *)
(* 1970-01-01).  formatDate turns a Date into the text 'YYYY-MM-DD'; the   *)
(* model keeps that text as the number YYYYMMDD, whose numeric order is    *)
(* the order SQLite and JavaScript give the texts.                         *)
(***************************************************************************)
EXTENDS Integers, Sequences, FiniteSets, Bags, TLC

----------------------------------------------------------------------------
(* The host Date library: civil calendar arithmetic.                       *)

\* JavaScript's % : the remainder takes the sign of the dividend.
JsRem(a, n) == IF a >= 0 THEN a % n ELSE 0 - ((0 - a) % n)

\* Day number of the civil date (y, m, d), m in 1..12; d may lie outside
\* the month, and then the date rolls over into the adjacent months.
DaysFromCivil(y, m, d) ==
    LET yy  == IF m <= 2 THEN y - 1 ELSE y
        era == yy \div 400
        yoe == yy - era * 400
        mp  == (m + 9) % 12
        doy == (153 * mp + 2) \div 5 + d - 1
        doe == yoe * 365 + yoe \div 4 - yoe \div 100 + doy
    IN  era * 146097 + doe - 719468

\* The civil date <<year, month (1..12), day>> of a day number.
CivilFromDays(n) ==
    LET z   == n + 719468
        era == z \div 146097
        doe == z - era * 146097
        yoe == (doe - doe \div 1460 + doe \div 36524 - doe \div 146096) \div 365
        doy == doe - (365 * yoe + yoe \div 4 - yoe \div 100)
        mp  == (5 * doy + 2) \div 153
        d   == doy - (153 * mp + 2) \div 5 + 1
        m   == IF mp < 10 THEN mp + 3 ELSE mp - 9
        y   == yoe + era * 400 + (IF m <= 2 THEN 1 ELSE 0)
    IN  <<y, m, d>>

\* new Date(year, monthIndex, day): monthIndex is 0-based and may be
\* negative or above 11, day may lie outside the month.
NewDate(year, monthIndex, day) ==
    CivilFromDays(DaysFromCivil(year + monthIndex \div 12, (monthIndex % 12) + 1, day))

\* The day number of a Date, and the Date `days` days after a Date.
DayNumber(date) == DaysFromCivil(date[1], date[2], date[3])
AddDays(date, days) == CivilFromDays(DayNumber(date) + days)

getFullYear(date) == date[1]
getMonth(date)    == date[2] - 1
getDate(date)     == date[3]
\* 1970-01-01 was a Thursday; 0 = Sunday .. 6 = Saturday.
getDay(date)      == (DayNumber(date) + 4) % 7

\* date.setMonth(monthIndex): same year and day-of-month, new month index.
setMonth(date, monthIndex) == NewDate(getFullYear(date), monthIndex, getDate(date))
\* date.setDate(day): same year and month, new day-of-month.
setDate(date, day) == NewDate(getFullYear(date), getMonth(date), day)

----------------------------------------------------------------------------
(* Date helpers of the server.                                             *)

COMPLETION_HISTORY_MONTHS == 3

\* 'YYYY-MM-DD' as the number YYYYMMDD.
formatDate(date) ==
    LET year  == getFullYear(date)
        month == getMonth(date) + 1
        day   == getDate(date)
    IN  year * 10000 + month * 100 + day

\* now: the Date the clock shows.
getTodayDate(now) == formatDate(now)

\* A retention cutoff of today.
getCompletionCutoffDate_Today(now) == formatDate(now)

getCompletionCutoffDate(now) ==
    formatDate(setMonth(now, getMonth(now) - COMPLETION_HISTORY_MONTHS))

\* An SQL NULL / a missing value is the empty tuple, a value v is <<v>>.
NULL == <<>>
Coalesce(x, dflt) == IF x = NULL THEN dflt ELSE x[1]

Frequencies == {"daily", "weekly", "monthly", "one-time"}

\* '1970-01-01'
EPOCH_TEXT == 19700101

\* getPeriodStartDate with > for >= in the monthly branch.
getPeriodStartDate_MonthlyStrict(task, now) ==
    LET today == NewDate(getFullYear(now), getMonth(now), getDate(now)) IN
    IF task.frequency = "daily" THEN formatDate(today)
    ELSE IF task.frequency = "weekly" THEN
        LET resetDay       == Coalesce(task.reset_day, 0)
            currentDay     == getDay(today)
            daysSinceReset == JsRem(currentDay - resetDay + 7, 7)
        IN  formatDate(setDate(today, getDate(today) - daysSinceReset))
    ELSE IF task.frequency = "monthly" THEN
        LET resetDay == Coalesce(task.reset_day, 1) IN
        IF getDate(today) > resetDay
        THEN formatDate(NewDate(getFullYear(today), getMonth(today), resetDay))
        ELSE formatDate(NewDate(getFullYear(today), getMonth(today) - 1, resetDay))
    ELSE IF task.frequency = "one-time" THEN EPOCH_TEXT
    ELSE formatDate(today)

\* The start of the current period of a task, the clock reading `now`.
getPeriodStartDate(task, now) ==
    LET today == NewDate(getFullYear(now), getMonth(now), getDate(now)) IN
    IF task.frequency = "daily" THEN formatDate(today)
    ELSE IF task.frequency = "weekly" THEN
        LET resetDay       == Coalesce(task.reset_day, 0)
            currentDay     == getDay(today)
            daysSinceReset == JsRem(currentDay - resetDay + 7, 7)
        IN  formatDate(setDate(today, getDate(today) - daysSinceReset))
    ELSE IF task.frequency = "monthly" THEN
        LET resetDay == Coalesce(task.reset_day, 1) IN
        IF getDate(today) >= resetDay
        THEN formatDate(NewDate(getFullYear(today), getMonth(today), resetDay))
        ELSE formatDate(NewDate(getFullYear(today), getMonth(today) - 1, resetDay))
    ELSE IF task.frequency = "one-time" THEN EPOCH_TEXT
    ELSE formatDate(today)

\* isTaskCompleted with > for >=.
isTaskCompleted_Strict(task, fetched, now) ==
    LET periodStart == getPeriodStartDate(task, now) IN
    \E c \in fetched : c.task_id = task.id /\ c.completed_date > periodStart

\* c.completed_date >= periodStart for some fetched completion of the task.
isTaskCompleted(task, fetched, now) ==
    LET periodStart == getPeriodStartDate(task, now) IN
    \E c \in fetched : c.task_id = task.id /\ c.completed_date >= periodStart

----------------------------------------------------------------------------
(* The store and the request handlers of the ledger-based server.          *)

\* Bounds of the model.
MaxTasks == 1
MaxCategories == 2
MaxTicks == 1
MaxPairTasks == 2

\* The clock starts on Wednesday 2024-01-10.
StartDay == <<2024, 1, 10>>
\* Days the clock may advance between two requests.
Jumps == {1, 7, 91, 92}

Users == {"u1", "u2"}
\* Request values; "" is a missing (falsy) text field.
NameInputs == {"home", ""}
\* A request field that may be left out: <<"undef">>, null: <<"null">>,
\* or a value: <<"val", v>>.
Undef == <<"undef">>
Null == <<"null">>
Val(v) == <<"val", v>>
ResetDayInputs == {Undef, Null, Val(15)}

VARIABLES
    now,            \* the server clock: the local calendar day, a Date
    ticks,          \* how many times the calendar day has changed
    categories,     \* table categories: rows [id, user_id, name]
    tasks,          \* table tasks: rows [id, user_id, title, frequency, category_id, reset_day]
    completions,    \* table task_completions: a bag of rows [task_id, completed_date]
    seq,            \* sqlite_sequence: last AUTOINCREMENT id per table
    resp,           \* the response of the last request
    pre,            \* the ledger and the derived status before the last toggle
    req,            \* the last request: who sent it and what it asked for
    schema,         \* the schema of the store, where databases of different origin differ
    phase,          \* the server process: "starting", "listening" or "exited"
    file            \* the snapshot of the database on disk (DB_PATH)

vars == <<now, ticks, categories, tasks, completions, seq, resp, pre,
         req, schema, phase, file>>

\* The database in memory (db).
Store ==
    [schema |-> schema, categories |-> categories, tasks |-> tasks,
     completions |-> completions, seq |-> seq]

\* saveDatabase() at the end of a step of a listening server whose disk
\* takes the write: the snapshot is the database the step leaves in
\* memory.
Persisted ==
    /\ phase' = phase
    /\ file' = [schema |-> schema', categories |-> categories',
                tasks |-> tasks', completions |-> completions', seq |-> seq']

NoResponse == [op |-> "none"]
NoPre == [op |-> "none"]
NoRequest == [op |-> "none"]

Rows(table) == BagToSet(table)

\* The table without the rows a DELETE removes: the rows of `kept` stay.
Keep(table, kept) == [r \in kept |-> table[r]]

\* DELETE FROM task_completions WHERE task_id = ? AND completed_date = ?
DeleteCompletion(table, id, date) ==
    Keep(table, {r \in DOMAIN table :
                    ~(r.task_id = id /\ r.completed_date = date)})

\* The UNIQUE(task_id, completed_date) constraint rejects the row.
UniqueConflict(table, row) ==
    \E r \in Rows(table) :
        r.task_id = row.task_id /\ r.completed_date = row.completed_date

\* A plain INSERT into a table without the UNIQUE constraint.
InsertOrIgnore_Plain(table, row) == table (+) SetToBag({row})

\* INSERT OR IGNORE INTO task_completions
InsertOrIgnore(table, row) ==
    IF UniqueConflict(table, row) THEN table ELSE table (+) SetToBag({row})

\* SELECT tc.task_id, tc.completed_date FROM task_completions tc
\* JOIN tasks t ON tc.task_id = t.id WHERE t.user_id = ? AND tc.completed_date >= ?
\* with the retention cutoff as the start date; the clock reads `at`.
getUserCompletions(userId, table, taskRows, at) ==
    LET cutoff == getCompletionCutoffDate(at) IN
    {c \in Rows(table) :
        /\ \E t \in taskRows : t.id = c.task_id /\ t.user_id = userId
        /\ c.completed_date >= cutoff}

\* isTaskCompleted(task, getUserCompletions(userId)) ? 1 : 0, the clock read
\* at cutAt for the cutoff and at startAt for the period start.
Completed(task, userId, table, taskRows, cutAt, startAt) ==
    IF isTaskCompleted(task, getUserCompletions(userId, table, taskRows, cutAt), startAt)
    THEN 1 ELSE 0

\* cleanupOldCompletions with the comparison turned round.
cleanupOldCompletions_Inverted(table, at) ==
    LET cutoffDate == getCompletionCutoffDate(at) IN
    Keep(table, {r \in DOMAIN table : ~(r.completed_date > cutoffDate)})

\* DELETE FROM task_completions WHERE completed_date < cutoff
cleanupOldCompletions(table, at) ==
    LET cutoffDate == getCompletionCutoffDate(at) IN
    Keep(table, {r \in DOMAIN table : ~(r.completed_date < cutoffDate)})

\* The schema of a store, in what the servers look at and in what
\* databases of different origin differ: whether categories and tasks
\* have the column user_id, tasks the column reset_day, whether the table
\* task_completions exists and has a column user_id, whether tasks has the
\* columns completed and last_completed, and the UNIQUE constraint of
\* categories.  hasChildId: tasks is the table of the earliest server, with
\* the column child_id and neither user_id nor category_id; hasUserId then
\* speaks of categories alone.  FreshSchema: what createTables gives an empty database.
FreshSchema ==
    [hasUserId |-> TRUE, hasResetDay |-> TRUE, hasLedger |-> TRUE,
     hasLedgerUserId |-> FALSE, hasCompleted |-> FALSE,
     hasChildId |-> FALSE, categories_unique |-> "user_id, name"]

\* 'legacy-user-' + uuidv4(): an owner that no client's cookie names.
LEGACY_USER_ID == "legacy-user"

\* A stored timestamp 'YYYY-MM-DDTHH:MM:SS.sssZ' is the pair of its date
\* text and its time text; split('T')[0] is the date text.
SplitT(timestamp) == timestamp[1]

\* The largest id of a table's rows, 0 for an empty table.
MaxId(rows) ==
    IF rows = {} THEN 0
    ELSE CHOOSE i \in {r.id : r \in rows} : \A r \in rows : i >= r.id

\* INSERT OR IGNORE INTO task_completions of the rows, one after the other.
RECURSIVE InsertAllOrIgnore(_, _)
InsertAllOrIgnore(table, rows) ==
    IF rows = {} THEN table
    ELSE LET r == CHOOSE x \in rows : TRUE
         IN  InsertAllOrIgnore(InsertOrIgnore(table, r), rows \ {r})

\* The rebuilt ledger without the INSERT ... SELECT that fills it.
CopyCompletions_None(table) == SetToBag({})

\* INSERT INTO task_completions_new (...) SELECT ... FROM task_completions:
\* every row of the old ledger is copied without its user_id.
RECURSIVE CopyCompletions(_)
CopyCompletions(table) ==
    IF DOMAIN table = {} THEN SetToBag({})
    ELSE LET r == CHOOSE x \in DOMAIN table : TRUE
             copy == [task_id |-> r.task_id, completed_date |-> r.completed_date]
         IN  [x \in {copy} |-> table[r]]
                 (+) CopyCompletions(Keep(table, DOMAIN table \ {r}))

\* The owner step that does not look for the column first.
WithUserId_Always(sch, rows) ==
    {[r EXCEPT !.user_id = LEGACY_USER_ID] : r \in rows}

\* The rows of categories or tasks after the migration step that adds the
\* column user_id.
WithUserId(sch, rows) ==
    IF sch.hasUserId THEN rows
    ELSE {[r EXCEPT !.user_id = LEGACY_USER_ID] : r \in rows}

\* The reset-day migration that adds the column and sets no value.
WithResetDay_ColumnOnly(sch, rows) == rows

\* The rows of tasks after the migration step that adds the column
\* reset_day.
WithResetDay(sch, rows) ==
    IF sch.hasResetDay THEN rows
    ELSE {[t EXCEPT !.reset_day =
              IF t.frequency = "weekly" THEN <<0>>
              ELSE IF t.frequency = "monthly" THEN <<1>>
              ELSE NULL] : t \in rows}

\* migrateDatabase on a database that holds the table categories.  store:
\* the database, with its schema, its tables categories, tasks and
\* task_completions (empty when the table is missing) and sqlite_sequence.
\* In a table without the column user_id the rows have user_id NULL; the
\* rows of a tasks table with the columns completed and last_completed
\* carry them, last_completed being NULL or <<timestamp>>.  The result is
\* the database the function leaves.
migrateDatabase(store) ==
    LET sch == store.schema
        taskRows == WithResetDay(sch, WithUserId(sch, store.tasks))
        completedTasks ==
            {t \in taskRows : t.completed = 1 /\ t.last_completed # NULL}
        ledger ==
            IF ~sch.hasLedger
            THEN InsertAllOrIgnore(SetToBag({}),
                     {[task_id |-> t.id,
                       completed_date |-> SplitT(t.last_completed[1])] :
                          t \in completedTasks})
            ELSE IF sch.hasLedgerUserId
            THEN CopyCompletions(store.completions)
            ELSE store.completions
        tasks_new ==
            IF sch.hasCompleted
            THEN {[id |-> t.id, user_id |-> t.user_id, title |-> t.title,
                   frequency |-> t.frequency, category_id |-> t.category_id,
                   reset_day |-> t.reset_day] : t \in taskRows}
            ELSE taskRows
    IN  [schema |-> [hasUserId |-> TRUE, hasResetDay |-> TRUE, hasLedger |-> TRUE,
                     hasLedgerUserId |-> FALSE, hasCompleted |-> FALSE,
                     hasChildId |-> sch.hasChildId,
                     categories_unique |-> sch.categories_unique],
         categories |-> WithUserId(sch, store.categories),
         tasks |-> tasks_new,
         completions |-> ledger,
         seq |-> [categories |-> store.seq.categories,
                  tasks |-> IF sch.hasCompleted THEN MaxId(tasks_new)
                            ELSE store.seq.tasks]]

Init ==
    /\ now = StartDay
    /\ ticks = 0
    /\ categories = {}
    /\ tasks = {}
    /\ completions = SetToBag({})
    /\ seq = [categories |-> 0, tasks |-> 0]
    /\ resp = NoResponse
    /\ pre = NoPre
    /\ req = NoRequest
    /\ schema = FreshSchema
    /\ phase = "listening"
    /\ file = Store

\* The calendar day changes between two requests.
Tick(days) ==
    /\ now' = AddDays(now, days)
    /\ ticks' = ticks + 1
    /\ resp' = NoResponse
    /\ pre' = NoPre
    /\ req' = NoRequest
    /\ UNCHANGED <<categories, tasks, completions, seq, schema>>

\* SELECT * FROM categories WHERE id = ? AND user_id = ?
OwnedCategory(id, userId) ==
    {c \in categories : c.id = id /\ c.user_id = userId}

\* The look-up of a task without the condition on its owner.
OwnedTask_AnyOwner(id, userId) ==
    {t \in tasks : t.id = id}

\* SELECT * FROM tasks WHERE id = ? AND user_id = ?
OwnedTask(id, userId) ==
    {t \in tasks : t.id = id /\ t.user_id = userId}

\* The UNIQUE constraint of table categories rejects the row.
CategoryConflict(userId, name) ==
    IF schema.categories_unique = "name"
    THEN \E c \in categories : c.name = name
    ELSE \E c \in categories : c.user_id = userId /\ c.name = name

\* A tasks table without the CHECK constraint on frequency.
FrequencyCheck_None(frequency) == TRUE

\* CHECK(frequency IN ('daily', 'weekly', 'monthly', 'one-time'))
FrequencyCheck(frequency) == frequency \in Frequencies

\* POST /api/categories without the check of the name.
CreateCategory_NoNameCheck(userId, name) ==
    /\ IF CategoryConflict(userId, name)
       THEN /\ resp' = [op |-> "createCategory", status |-> 400,
                        error |-> "Category already exists"]
            /\ UNCHANGED <<categories, seq>>
       ELSE LET id == seq.categories + 1 IN
            /\ categories' = categories \cup
                   {[id |-> id, user_id |-> userId, name |-> name]}
            /\ seq' = [seq EXCEPT !.categories = id]
            /\ resp' = [op |-> "createCategory", status |-> 200,
                        id |-> id, name |-> name]
    /\ pre' = NoPre
    /\ req' = [op |-> "createCategory", user |-> userId, name |-> name]
    /\ UNCHANGED <<now, ticks, tasks, completions, schema>>

\* POST /api/categories
CreateCategory(userId, name) ==
    /\ IF name = ""
       THEN /\ resp' = [op |-> "createCategory", status |-> 400,
                        error |-> "Name is required"]
            /\ UNCHANGED <<categories, seq>>
       ELSE IF CategoryConflict(userId, name)
       THEN /\ resp' = [op |-> "createCategory", status |-> 400,
                        error |-> "Category already exists"]
            /\ UNCHANGED <<categories, seq>>
       ELSE LET id == seq.categories + 1 IN
            /\ categories' = categories \cup
                   {[id |-> id, user_id |-> userId, name |-> name]}
            /\ seq' = [seq EXCEPT !.categories = id]
            /\ resp' = [op |-> "createCategory", status |-> 200,
                        id |-> id, name |-> name]
    /\ pre' = NoPre
    /\ req' = [op |-> "createCategory", user |-> userId, name |-> name]
    /\ UNCHANGED <<now, ticks, tasks, completions, schema>>

\* POST /api/tasks; category_id 0 is a missing category_id.
CreateTask(userId, title, frequency, category_id, reset_day) ==
    /\ IF title = "" \/ frequency = "" \/ category_id = 0
       THEN /\ resp' = [op |-> "createTask", status |-> 400]
            /\ UNCHANGED <<tasks, seq>>
       ELSE IF OwnedCategory(category_id, userId) = {}
       THEN /\ resp' = [op |-> "createTask", status |-> 404]
            /\ UNCHANGED <<tasks, seq>>
       ELSE LET finalResetDay ==
                    IF reset_day \in {Undef, Null}
                    THEN IF frequency = "weekly" THEN <<0>>
                         ELSE IF frequency = "monthly" THEN <<1>>
                         ELSE NULL
                    ELSE <<reset_day[2]>>
                id == seq.tasks + 1
                task == [id |-> id, user_id |-> userId, title |-> title,
                         frequency |-> frequency, category_id |-> category_id,
                         reset_day |-> finalResetDay]
            IN  IF ~FrequencyCheck(frequency)
                THEN /\ resp' = [op |-> "createTask", status |-> 500]
                     /\ UNCHANGED <<tasks, seq>>
                ELSE /\ tasks' = tasks \cup {task}
                     /\ seq' = [seq EXCEPT !.tasks = id]
                     /\ resp' = [op |-> "createTask", status |-> 200,
                                 task |-> task, completed |-> 0]
    /\ pre' = NoPre
    /\ req' = [op |-> "createTask", user |-> userId, title |-> title,
                frequency |-> frequency, category_id |-> category_id,
                reset_day |-> reset_day]
    /\ UNCHANGED <<now, ticks, categories, completions, schema>>

\* The clock as the handler's read number `read` sees it: midnight passes
\* just before read number `cross` (0: it does not pass).
ClockAt(read, cross) ==
    IF cross # 0 /\ read >= cross THEN AddDays(now, 1) ELSE now

\* Where the handler's clock reads leave the clock.
ClockAfter(cross) ==
    /\ now' = IF cross # 0 THEN AddDays(now, 1) ELSE now
    /\ ticks' = IF cross # 0 THEN ticks + 1 ELSE ticks

\* The ledger step of the toggle without the look-up of today's fact.
ToggleCompletion_AlwaysInsert(table, id, today) ==
    InsertOrIgnore(table, [task_id |-> id, completed_date |-> today])

\* The ledger step of the toggle, the DELETE without its date condition.
ToggleCompletion_DeleteAllDates(table, id, today) ==
    LET row == [task_id |-> id, completed_date |-> today]
        existingCompletion == {c \in Rows(table) : c = row}
    IN  IF existingCompletion # {}
        THEN Keep(table, {r \in DOMAIN table : r.task_id # id})
        ELSE InsertOrIgnore(table, row)

\* The ledger step of the toggle: today's fact of the task is removed when
\* it exists and recorded when it does not.
ToggleCompletion(table, id, today) ==
    LET row == [task_id |-> id, completed_date |-> today]
        existingCompletion == {c \in Rows(table) : c = row}
    IN  IF existingCompletion # {}
        THEN DeleteCompletion(table, id, today)
        ELSE InsertOrIgnore(table, row)

\* PATCH /api/tasks/:id/toggle
\* Clock reads: 1 getTodayDate, 2 the cutoff of getUserCompletions,
\* 3 getPeriodStartDate.
ToggleTask(userId, id, cross) ==
    /\ cross \in {0, 2, 3}
    /\ IF OwnedTask(id, userId) = {}
       THEN /\ cross = 0
            /\ resp' = [op |-> "toggle", status |-> 404]
            /\ pre' = NoPre
            /\ UNCHANGED <<now, ticks, completions>>
       ELSE LET task  == CHOOSE t \in OwnedTask(id, userId) : TRUE
                today == getTodayDate(ClockAt(1, cross))
                after == ToggleCompletion(completions, id, today)
                completed == Completed(task, userId, after, tasks,
                                       ClockAt(2, cross), ClockAt(3, cross))
            IN  /\ ClockAfter(cross)
                /\ completions' = after
                /\ resp' = [op |-> "toggle", status |-> 200, task |-> task,
                            completed |-> completed, today |-> today,
                            at |-> ClockAt(3, cross)]
                /\ pre' = [op |-> "toggle", task |-> task, today |-> today,
                           completions |-> completions,
                           completed |-> Completed(task, userId, completions,
                                                   tasks, now, now)]
    /\ req' = [op |-> "toggle", user |-> userId, id |-> id]
    /\ UNCHANGED <<categories, tasks, seq, schema>>

EditTitleInputs == {Undef, Val("dishes")}
EditFrequencyInputs == {Undef} \cup {Val(f) : f \in Frequencies \cup {"hourly"}}

\* The reset day create-task and the reset-day migration give a task of
\* the frequency when none is given.
DefaultResetDay(frequency) ==
    IF frequency = "weekly" THEN <<0>>
    ELSE IF frequency = "monthly" THEN <<1>>
    ELSE NULL

\* The update that writes the row whole: a field the request does not give
\* gets its default.
UpdateTask_Whole(task, title, frequency, reset_day) ==
    [task EXCEPT
       !.title = IF title = Undef THEN "" ELSE title[2],
       !.frequency = IF frequency = Undef THEN @ ELSE frequency[2],
       !.reset_day = IF reset_day \in {Undef, Null}
                     THEN DefaultResetDay(IF frequency = Undef THEN task.frequency
                                          ELSE frequency[2])
                     ELSE <<reset_day[2]>>]

\* UPDATE tasks SET ... WHERE id = ? AND user_id = ?: the row of the task
\* with the columns the request gives set to the values it gives.
UpdateTask(task, title, frequency, reset_day) ==
    [task EXCEPT
       !.title = IF title = Undef THEN @ ELSE title[2],
       !.frequency = IF frequency = Undef THEN @ ELSE frequency[2],
       !.reset_day = IF reset_day = Undef THEN @
                     ELSE IF reset_day = Null THEN NULL
                     ELSE <<reset_day[2]>>]

\* PATCH /api/tasks/:id
\* Clock reads: 1 the cutoff of getUserCompletions, 2 getPeriodStartDate.
EditTask(userId, id, title, frequency, reset_day, cross) ==
    /\ cross \in {0, 2}
    /\ IF OwnedTask(id, userId) = {}
       THEN /\ cross = 0
            /\ resp' = [op |-> "edit", status |-> 404]
            /\ UNCHANGED <<now, ticks, tasks>>
       ELSE IF title = Undef /\ frequency = Undef /\ reset_day = Undef
       THEN /\ cross = 0
            /\ resp' = [op |-> "edit", status |-> 400]
            /\ UNCHANGED <<now, ticks, tasks>>
       ELSE LET task == CHOOSE t \in OwnedTask(id, userId) : TRUE
                updatedTask == UpdateTask(task, title, frequency, reset_day)
                updated == (tasks \ {task}) \cup {updatedTask}
            IN  IF ~FrequencyCheck(updatedTask.frequency)
                THEN /\ cross = 0
                     /\ resp' = [op |-> "edit", status |-> 500]
                     /\ UNCHANGED <<now, ticks, tasks>>
                ELSE /\ ClockAfter(cross)
                     /\ tasks' = updated
                     /\ resp' = [op |-> "edit", status |-> 200,
                                 task |-> updatedTask,
                                 completed |-> Completed(updatedTask, userId,
                                     completions, updated,
                                     ClockAt(1, cross), ClockAt(2, cross)),
                                 at |-> ClockAt(2, cross)]
    /\ pre' = NoPre
    /\ req' = [op |-> "edit", user |-> userId, id |-> id, title |-> title,
                frequency |-> frequency, reset_day |-> reset_day]
    /\ UNCHANGED <<categories, completions, seq, schema>>

\* GET /api/tasks that sweeps the ledger before it answers.
ListTasks_Sweeping(userId, category_id, include_history, late) ==
    /\ late = 0
    /\ completions' = cleanupOldCompletions(completions, now)
    /\ resp' = [op |-> "list", status |-> 200, user |-> userId, tasks |-> {}]
    /\ pre' = NoPre
    /\ req' = [op |-> "list", user |-> userId, category_id |-> category_id,
                include_history |-> include_history]
    /\ UNCHANGED <<now, ticks, categories, tasks, seq, schema>>

\* GET /api/tasks; category_id 0 is no category filter.
\* The rows come latest first; the clock is read once for the cutoff of
\* getUserCompletions and then once per row by getPeriodStartDate.  When
\* midnight passes during the request, the rows with id <= late are the ones
\* evaluated on the next day (late = 0: midnight does not pass).
ListTasks(userId, category_id, include_history, late) ==
    LET rows == {t \in tasks :
                    /\ t.user_id = userId
                    /\ \E c \in categories : c.id = t.category_id
                    /\ category_id # 0 => t.category_id = category_id}
        fetched == getUserCompletions(userId, completions, tasks, now)
        At(t) == IF t.id <= late THEN AddDays(now, 1) ELSE now
        tasksWithStatus ==
            {[task |-> t,
              completed |-> IF isTaskCompleted(t, fetched, At(t)) THEN 1 ELSE 0,
              at |-> At(t)] : t \in rows}
        completionMap ==
            [i \in {c.task_id : c \in fetched} |->
                {c.completed_date : c \in {x \in fetched : x.task_id = i}}]
    IN  /\ late # 0 => \E t \in rows : t.id <= late
        /\ now' = IF late # 0 THEN AddDays(now, 1) ELSE now
        /\ ticks' = IF late # 0 THEN ticks + 1 ELSE ticks
        /\ resp' = IF include_history
                   THEN [op |-> "list", status |-> 200, user |-> userId,
                         tasks |-> tasksWithStatus, completions |-> completionMap]
                   ELSE [op |-> "list", status |-> 200, user |-> userId,
                         tasks |-> tasksWithStatus]
        /\ pre' = NoPre
        /\ req' = [op |-> "list", user |-> userId, category_id |-> category_id,
                    include_history |-> include_history]
        /\ UNCHANGED <<categories, tasks, completions, seq, schema>>

\* GET /api/categories
ListCategories(userId) ==
    /\ resp' = [op |-> "listCategories", status |-> 200, user |-> userId,
                categories |-> {c \in categories : c.user_id = userId}]
    /\ pre' = NoPre
    /\ req' = [op |-> "listCategories", user |-> userId]
    /\ UNCHANGED <<now, ticks, categories, tasks, completions, seq, schema>>

\* PRAGMA foreign_keys: the server never sets it, and a connection that has
\* not set it leaves the FOREIGN KEY clauses of the schema, ON DELETE
\* CASCADE included, unenforced.
ForeignKeys == FALSE

\* task_completions after a DELETE of the rows `gone` of tasks.
CascadeCompletions(table, gone) ==
    IF ForeignKeys
    THEN Keep(table, {r \in DOMAIN table : \A t \in gone : r.task_id # t.id})
    ELSE table

\* tasks after a DELETE of the rows `gone` of categories.
CascadeTasks(taskRows, gone) ==
    IF ForeignKeys
    THEN {t \in taskRows : \A c \in gone : t.category_id # c.id}
    ELSE taskRows

\* DELETE /api/categories/:id without its DELETE FROM tasks.
DeleteCategory_CategoryOnly(userId, id) ==
    /\ IF OwnedCategory(id, userId) = {}
       THEN /\ resp' = [op |-> "deleteCategory", status |-> 404]
            /\ UNCHANGED categories
       ELSE /\ categories' = categories \ OwnedCategory(id, userId)
            /\ resp' = [op |-> "deleteCategory", status |-> 200]
    /\ pre' = NoPre
    /\ req' = [op |-> "deleteCategory", user |-> userId, id |-> id]
    /\ UNCHANGED <<now, ticks, tasks, completions, seq, schema>>

\* DELETE /api/categories/:id
DeleteCategory(userId, id) ==
    /\ IF OwnedCategory(id, userId) = {}
       THEN /\ resp' = [op |-> "deleteCategory", status |-> 404]
            /\ UNCHANGED <<categories, tasks, completions>>
       ELSE LET goneTasks == {t \in tasks : t.category_id = id /\ t.user_id = userId}
                goneCategories == {c \in categories : c.id = id /\ c.user_id = userId}
                leftTasks == CascadeTasks(tasks \ goneTasks, goneCategories)
            IN  /\ tasks' = leftTasks
                /\ categories' = categories \ goneCategories
                /\ completions' = CascadeCompletions(completions, tasks \ leftTasks)
                /\ resp' = [op |-> "deleteCategory", status |-> 200]
    /\ pre' = NoPre
    /\ req' = [op |-> "deleteCategory", user |-> userId, id |-> id]
    /\ UNCHANGED <<now, ticks, seq, schema>>

\* DELETE /api/tasks/:id
DeleteTask(userId, id) ==
    /\ IF OwnedTask(id, userId) = {}
       THEN /\ resp' = [op |-> "deleteTask", status |-> 404]
            /\ UNCHANGED <<tasks, completions>>
       ELSE LET gone == {t \in tasks : t.id = id /\ t.user_id = userId} IN
            /\ tasks' = tasks \ gone
            /\ completions' = CascadeCompletions(completions, gone)
            /\ resp' = [op |-> "deleteTask", status |-> 200]
    /\ pre' = NoPre
    /\ req' = [op |-> "deleteTask", user |-> userId, id |-> id]
    /\ UNCHANGED <<now, ticks, categories, seq, schema>>

\* The server starts again on the stored database: initDatabase finds the
\* final schema in place (migrateDatabase changes nothing) and runs the
\* retention sweep.  swept: the rows the sweep removed.
Restart ==
    /\ completions' = cleanupOldCompletions(completions, now)
    /\ resp' = [op |-> "startup", cutoff |-> getCompletionCutoffDate(now),
                swept |-> Rows(completions) \ Rows(completions')]
    /\ pre' = NoPre
    /\ req' = [op |-> "startup"]
    /\ UNCHANGED <<now, ticks, categories, tasks, seq, schema>>

----------------------------------------------------------------------------
(* Specification Spec: one task, every kind of request on it.              *)

\* The requests the clients send: every well-formed combination, and one
\* request for each way of leaving a required field out.
CreateTaskRequests ==
    [title : {"dishes"}, frequency : Frequencies \cup {"hourly"},
     category_id : 1..MaxCategories, reset_day : ResetDayInputs]
    \cup {[title |-> "", frequency |-> "daily", category_id |-> 1, reset_day |-> Undef],
          [title |-> "dishes", frequency |-> "", category_id |-> 1, reset_day |-> Undef],
          [title |-> "dishes", frequency |-> "daily", category_id |-> 0, reset_day |-> Undef]}

\* The edits: the empty one, every edit of one field, and two edits of
\* several fields.
EditTaskRequests ==
    {r \in [title : EditTitleInputs, frequency : EditFrequencyInputs,
            reset_day : ResetDayInputs] :
        Cardinality({f \in {"title", "frequency", "reset_day"} : r[f] # Undef}) <= 1}
    \cup {[title |-> Val("dishes"), frequency |-> Val("weekly"), reset_day |-> Val(15)],
          [title |-> Undef, frequency |-> Val("monthly"), reset_day |-> Null]}

Next ==
    \/ \E d \in Jumps : ticks < MaxTicks /\ Tick(d) /\ Persisted
    \/ \E u \in Users, n \in NameInputs :
          seq.categories < MaxCategories /\ CreateCategory(u, n) /\ Persisted
    \/ \E u \in Users, r \in CreateTaskRequests :
          /\ seq.tasks < MaxTasks
          /\ CreateTask(u, r.title, r.frequency, r.category_id, r.reset_day)
          /\ Persisted
    \/ \E u \in Users, i \in 1..MaxTasks, x \in {0, 2, 3} :
          (x # 0 => ticks < MaxTicks) /\ ToggleTask(u, i, x) /\ Persisted
    \/ \E u \in Users, i \in 1..MaxTasks, r \in EditTaskRequests, x \in {0, 2} :
          /\ x # 0 => ticks < MaxTicks
          /\ EditTask(u, i, r.title, r.frequency, r.reset_day, x)
          /\ Persisted
    \/ \E u \in Users, c \in 0..MaxCategories, h \in BOOLEAN, l \in 0..MaxTasks :
          (l # 0 => ticks < MaxTicks) /\ ListTasks(u, c, h, l) /\ Persisted
    \/ Restart /\ Persisted

Spec == Init /\ [][Next]_vars

----------------------------------------------------------------------------
(* Specification SpecPair: several tasks of both users, created with the   *)
(* default reset day and not edited.                                       *)

PairTaskRequests ==
    [title : {"dishes"}, frequency : Frequencies,
     category_id : 1..MaxCategories, reset_day : {Undef}]

NextPair ==
    \/ \E d \in Jumps : ticks < MaxTicks /\ Tick(d) /\ Persisted
    \/ \E u \in Users :
          seq.categories < MaxCategories /\ CreateCategory(u, "home") /\ Persisted
    \/ \E u \in Users, r \in PairTaskRequests :
          /\ seq.tasks < MaxPairTasks
          /\ CreateTask(u, r.title, r.frequency, r.category_id, r.reset_day)
          /\ Persisted
    \/ \E u \in Users, i \in 1..MaxPairTasks : ToggleTask(u, i, 0) /\ Persisted
    \/ \E u \in Users, l \in 0..MaxPairTasks :
          (l # 0 => ticks < MaxTicks) /\ ListTasks(u, 0, FALSE, l) /\ Persisted
    \/ Restart /\ Persisted

SpecPair == Init /\ [][NextPair]_vars

----------------------------------------------------------------------------
(* Specification SpecLegacy: the server starts on no database file or on   *)
(* the database file of an earlier server, and serves the requests of      *)
(* SpecPair.                                                               *)

\* The columns completed and last_completed of a task of an earlier server:
\* never completed, completed yesterday, completed yesterday and reset
\* since, completed before the retention cutoff.
LegacyFlags ==
    {[completed |-> 0, last_completed |-> NULL],
     [completed |-> 1, last_completed |-> <<<<20240109, "T10:00:00.000Z">>>>],
     [completed |-> 0, last_completed |-> <<<<20240109, "T10:00:00.000Z">>>>],
     [completed |-> 1, last_completed |-> <<<<20231009, "T10:00:00.000Z">>>>]}

\* The earlier schemas: of the first server (src/server.js), of the server
\* with owners (part_000), and of the server with owners, reset days and a
\* ledger that names the owner (part_001).
LegacyShapes ==
    {[hasUserId |-> FALSE, hasResetDay |-> FALSE, hasLedger |-> FALSE,
      hasLedgerUserId |-> FALSE, hasCompleted |-> TRUE,
      hasChildId |-> FALSE, categories_unique |-> "name"],
     [hasUserId |-> TRUE, hasResetDay |-> FALSE, hasLedger |-> FALSE,
      hasLedgerUserId |-> FALSE, hasCompleted |-> TRUE,
      hasChildId |-> FALSE, categories_unique |-> "user_id, name"],
     [hasUserId |-> TRUE, hasResetDay |-> TRUE, hasLedger |-> TRUE,
      hasLedgerUserId |-> TRUE, hasCompleted |-> TRUE,
      hasChildId |-> FALSE, categories_unique |-> "user_id, name"]}

\* The owners of the tasks of a database file with owners.
LegacyOwner(i) == IF i = 1 THEN "u1" ELSE "u2"

\* The facts a ledger of the last earlier schema may hold.
LegacyFacts ==
    {[task_id |-> 1, user_id |-> "u1", completed_date |-> 20240109],
     [task_id |-> 1, user_id |-> "u1", completed_date |-> 20231009],
     [task_id |-> 2, user_id |-> "u2", completed_date |-> 20240110]}

\* A database file: the weekly task 1 of u1 with the flag columns f and,
\* when ids holds 2, the monthly task 2 of u2 completed today, each under a
\* category of its own (named alike where the schema allows it); ledger:
\* the rows of its task_completions table.
LegacyStore(shape, f, ids, ledger) ==
    [schema |-> shape,
     categories |->
         {[id |-> i,
           user_id |-> IF shape.hasUserId THEN LegacyOwner(i) ELSE NULL,
           name |-> IF shape.categories_unique = "name" /\ i = 2
                    THEN "garden" ELSE "home"] : i \in ids},
     tasks |->
         {[id |-> i,
           user_id |-> IF shape.hasUserId THEN LegacyOwner(i) ELSE NULL,
           title |-> "dishes",
           frequency |-> IF i = 1 THEN "weekly" ELSE "monthly",
           category_id |-> i,
           reset_day |-> IF ~shape.hasResetDay THEN NULL
                         ELSE IF i = 1 THEN <<0>> ELSE <<1>>,
           completed |-> IF i = 1 THEN f.completed ELSE 1,
           last_completed |-> IF i = 1 THEN f.last_completed
                              ELSE <<<<20240110, "T10:00:00.000Z">>>>] :
             i \in ids},
     completions |-> SetToBag(ledger),
     seq |-> [categories |-> Cardinality(ids), tasks |-> Cardinality(ids)]]

\* The database files considered, each as the arguments of LegacyStore: a
\* ledger exists only in the last earlier schema and names stored tasks.
LegacyStores ==
    {x \in LegacyShapes \X LegacyFlags \X {{1}, {1, 2}} \X SUBSET LegacyFacts :
        /\ \A c \in x[4] : c.task_id \in x[3]
        /\ ~x[1].hasLedger => x[4] = {}}

\* DELETE /api/tasks/:id of the earlier servers: DELETE FROM tasks, which
\* leaves the ledger and sqlite_sequence as they are.
DeleteLegacyTask(store, id) ==
    [store EXCEPT !.tasks = {t \in @ : t.id # id}]

\* A database file of LegacyStores, in which the earlier server has deleted
\* task 2 when deleted holds.
LegacyStoresAfterDelete(x, deleted) ==
    IF deleted THEN DeleteLegacyTask(LegacyStore(x[1], x[2], x[3], x[4]), 2)
    ELSE LegacyStore(x[1], x[2], x[3], x[4])

\* initDatabase on a database file: migrateDatabase, then the sweep.
InitLegacy ==
    \E x \in LegacyStores, deleted \in BOOLEAN :
        LET migrated == migrateDatabase(LegacyStoresAfterDelete(x, deleted)) IN
        /\ deleted => 2 \in x[3]
        /\ now = StartDay
        /\ ticks = 0
        /\ categories = migrated.categories
        /\ tasks = migrated.tasks
        /\ completions = cleanupOldCompletions(migrated.completions, StartDay)
        /\ seq = migrated.seq
        /\ resp = NoResponse
        /\ pre = NoPre
        /\ req = NoRequest
        /\ schema = migrated.schema
        /\ phase = "listening"
        /\ file = Store

SpecLegacy == (Init \/ InitLegacy) /\ [][NextPair]_vars

----------------------------------------------------------------------------
(* Specification SpecStore: two users create, edit, toggle, list and       *)
(* delete categories and tasks, on a store that starts empty or comes from *)
(* the database file of an earlier server.                                 *)

\* Create-task requests: well-formed ones with the default reset day, and
\* one request for each way of leaving a required field out.
StoreTaskRequests ==
    [title : {"dishes"}, frequency : {"daily"},
     category_id : 1..MaxCategories, reset_day : {Undef}]
    \cup {[title |-> "", frequency |-> "daily", category_id |-> 1, reset_day |-> Undef],
          [title |-> "dishes", frequency |-> "", category_id |-> 1, reset_day |-> Undef],
          [title |-> "dishes", frequency |-> "daily", category_id |-> 0, reset_day |-> Undef]}

\* Edit-task requests: a new title, and the request without fields.
StoreEditRequests ==
    {[title |-> Val("laundry"), frequency |-> Undef, reset_day |-> Undef],
     [title |-> Undef, frequency |-> Undef, reset_day |-> Undef]}

\* The clock moves past the retention period.
StoreJumps == {92}

NextStore ==
    \/ \E d \in StoreJumps : ticks < MaxTicks /\ Tick(d) /\ Persisted
    \/ \E u \in Users, n \in NameInputs :
          seq.categories < MaxCategories /\ CreateCategory(u, n) /\ Persisted
    \/ \E u \in Users, r \in StoreTaskRequests :
          /\ seq.tasks < MaxPairTasks
          /\ CreateTask(u, r.title, r.frequency, r.category_id, r.reset_day)
          /\ Persisted
    \/ \E u \in Users, i \in 1..MaxPairTasks : ToggleTask(u, i, 0) /\ Persisted
    \/ \E u \in Users, i \in 1..MaxPairTasks, r \in StoreEditRequests :
          EditTask(u, i, r.title, r.frequency, r.reset_day, 0) /\ Persisted
    \/ \E u \in Users, c \in 0..MaxCategories, h \in BOOLEAN : ListTasks(u, c, h, 0) /\ Persisted
    \/ \E u \in Users : ListCategories(u) /\ Persisted
    \/ \E u \in Users, i \in 1..MaxPairTasks : DeleteTask(u, i) /\ Persisted
    \/ \E u \in Users, c \in 1..MaxCategories : DeleteCategory(u, c) /\ Persisted
    \/ Restart /\ Persisted

SpecStore == (Init \/ InitLegacy) /\ [][NextStore]_vars

-----------------------------------------------------------------------------
(* Specification SpecMigrate: a database file of an earlier server, on      *)
(* which the server with the owner-naming ledger (part_001) and the final   *)
(* server are started, in any order and any number of times.  The state     *)
(* variables hold the file as it is, of whatever schema.                    *)

\* initDatabase of the server with the owner-naming ledger, from the check
\* of the tables to the creation of a missing ledger, on a database that
\* holds the table categories: the ledger it creates is empty.
initDatabase_Gen1(store) ==
    LET sch == store.schema IN
    [schema |-> [sch EXCEPT !.hasUserId = TRUE, !.hasResetDay = TRUE,
                            !.hasLedger = TRUE,
                            !.hasLedgerUserId = IF sch.hasLedger THEN @ ELSE TRUE],
     categories |-> WithUserId(sch, store.categories),
     tasks |-> WithResetDay(sch, WithUserId(sch, store.tasks)),
     completions |-> IF sch.hasLedger THEN store.completions ELSE SetToBag({}),
     seq |-> store.seq]

\* The days by which the UTC date of an instant may differ from its local
\* date.
UtcShifts == {0 - 1, 0, 1}

\* cleanupOldCompletions of that server: the cutoff is the UTC date of the
\* local instant three months back.
cleanupOldCompletions_Gen1(table, at, utc) ==
    LET threeMonthsAgo == setMonth(at, getMonth(at) - 3)
        cutoffDate == formatDate(AddDays(threeMonthsAgo, utc))
    IN  Keep(table, {r \in DOMAIN table : ~(r.completed_date < cutoffDate)})

InitMigrate ==
    \E x \in LegacyStores, deleted \in BOOLEAN :
        LET legacy == LegacyStoresAfterDelete(x, deleted) IN
        /\ deleted => 2 \in x[3]
        /\ now = StartDay
        /\ ticks = 0
        /\ categories = legacy.categories
        /\ tasks = legacy.tasks
        /\ completions = legacy.completions
        /\ seq = legacy.seq
        /\ resp = NoResponse
        /\ pre = NoPre
        /\ req = NoRequest
        /\ schema = legacy.schema
        /\ phase = "listening"
        /\ file = Store

\* The server with the owner-naming ledger starts on the file: initDatabase
\* with its sweep.  It is started on files that still have its flag columns.
\* The response keeps the ledger as it was before the sweep.
StartGen1(utc) ==
    LET store == initDatabase_Gen1(Store) IN
    /\ schema.hasCompleted
    /\ categories' = store.categories
    /\ tasks' = store.tasks
    /\ completions' = cleanupOldCompletions_Gen1(store.completions, now, utc)
    /\ seq' = store.seq
    /\ schema' = store.schema
    /\ resp' = [op |-> "startGen1", migrated |-> store.completions]
    /\ pre' = NoPre
    /\ req' = [op |-> "startup"]
    /\ UNCHANGED <<now, ticks>>

\* The final server starts on the file: initDatabase, that is
\* migrateDatabase and then the sweep.  The response keeps the ledger as
\* migrateDatabase left it and the file as a second run of migrateDatabase
\* would leave it.
StartOnFile ==
    LET store == migrateDatabase(Store) IN
    /\ categories' = store.categories
    /\ tasks' = store.tasks
    /\ completions' = cleanupOldCompletions(store.completions, now)
    /\ seq' = store.seq
    /\ schema' = store.schema
    /\ resp' = [op |-> "migrate", found |-> schema,
                migrated |-> store.completions,
                cutoff |-> getCompletionCutoffDate(now)]
    /\ pre' = NoPre
    /\ req' = [op |-> "startup"]
    /\ UNCHANGED <<now, ticks>>

\* Create-task requests without a reset day, of every frequency, under the
\* two categories.
MigrateTaskRequests ==
    [title : {"dishes"}, frequency : Frequencies,
     category_id : 1..MaxCategories, reset_day : {Undef, Null}]

\* Edit-task requests: a new title, a new frequency, the reset day removed,
\* a new title and frequency.
MigrateEditRequests ==
    {[title |-> Val("laundry"), frequency |-> Undef, reset_day |-> Undef],
     [title |-> Undef, frequency |-> Val("monthly"), reset_day |-> Undef],
     [title |-> Undef, frequency |-> Undef, reset_day |-> Null],
     [title |-> Val("laundry"), frequency |-> Val("daily"), reset_day |-> Undef]}

\* The final server listens once initDatabase has finished: its requests
\* come on a file of the final schema.
Listening ==
    schema = [FreshSchema EXCEPT !.categories_unique = schema.categories_unique]

NextMigrate ==
    \/ \E d \in StoreJumps : ticks < MaxTicks /\ Tick(d) /\ Persisted
    \/ \E utc \in UtcShifts : StartGen1(utc) /\ Persisted
    \/ StartOnFile /\ Persisted
    \/ Listening /\ seq.categories < MaxCategories /\ CreateCategory("u1", "garden") /\ Persisted
    \/ \E r \in MigrateTaskRequests :
          /\ Listening
          /\ seq.tasks < MaxPairTasks
          /\ CreateTask("u1", r.title, r.frequency, r.category_id, r.reset_day)
          /\ Persisted
    \/ \E i \in 1..MaxPairTasks, r \in MigrateEditRequests :
          Listening /\ EditTask("u1", i, r.title, r.frequency, r.reset_day, 0) /\ Persisted

SpecMigrate == InitMigrate /\ [][NextMigrate]_vars

-----------------------------------------------------------------------------
(* Specification SpecGen1: a database file of an earlier server is served   *)
(* by the server with the owner-naming ledger (part_001), whose tasks keep  *)
(* the columns completed and last_completed beside the ledger, and later by *)
(* the final server.                                                        *)

\* The server with the owner-naming ledger serves a file of its own schema.
ListeningGen1 ==
    /\ schema.hasUserId
    /\ schema.hasResetDay
    /\ schema.hasLedger
    /\ schema.hasLedgerUserId
    /\ schema.hasCompleted

\* new Date().toISOString(): the UTC date of the instant and its time.
toISOString(at, utc) == <<formatDate(AddDays(at, utc)), "T10:00:00.000Z">>

\* PATCH /api/tasks/:id/toggle of that server.  Clock reads: 1 the
\* timestamp of last_completed, 2 todayDate; midnight passes just before
\* read number `cross` (0: it does not pass).
ToggleTaskGen1(userId, id, utc, cross) ==
    /\ cross \in {0, 2}
    /\ IF OwnedTask(id, userId) = {}
       THEN /\ cross = 0
            /\ resp' = [op |-> "toggleGen1", status |-> 404]
            /\ UNCHANGED <<now, ticks, tasks, completions>>
       ELSE LET task == CHOOSE t \in OwnedTask(id, userId) : TRUE
                newCompleted == IF task.completed = 1 THEN 0 ELSE 1
                lastCompleted == IF newCompleted = 1
                                 THEN <<toISOString(ClockAt(1, cross), utc)>>
                                 ELSE NULL
                todayDate == SplitT(toISOString(ClockAt(2, cross), utc))
                row == [task_id |-> id, user_id |-> userId,
                        completed_date |-> todayDate]
            IN  /\ ClockAfter(cross)
                /\ tasks' = (tasks \ {task}) \cup
                               {[task EXCEPT !.completed = newCompleted,
                                             !.last_completed = lastCompleted]}
                /\ completions' =
                      IF newCompleted = 1
                      THEN InsertOrIgnore(completions, row)
                      ELSE Keep(completions,
                                {r \in DOMAIN completions :
                                    ~(/\ r.task_id = id
                                      /\ r.user_id = userId
                                      /\ r.completed_date = todayDate)})
                /\ resp' = [op |-> "toggleGen1", status |-> 200, task |-> task,
                            completed |-> newCompleted,
                            last_completed |-> lastCompleted,
                            today |-> todayDate]
    /\ pre' = NoPre
    /\ req' = [op |-> "toggleGen1", user |-> userId, id |-> id]
    /\ UNCHANGED <<categories, seq, schema>>

\* The reset that also removes the task's facts from the ledger.
ResetTaskGen1_ClearsLedger(userId, id) ==
    /\ IF OwnedTask(id, userId) = {}
       THEN /\ resp' = [op |-> "resetGen1", status |-> 404]
            /\ UNCHANGED <<tasks, completions>>
       ELSE LET task == CHOOSE t \in OwnedTask(id, userId) : TRUE IN
            /\ tasks' = (tasks \ {task}) \cup {[task EXCEPT !.completed = 0]}
            /\ completions' = Keep(completions,
                                   {r \in DOMAIN completions : r.task_id # id})
            /\ resp' = [op |-> "resetGen1", status |-> 200, task |-> task,
                        completed |-> 0]
    /\ pre' = NoPre
    /\ req' = [op |-> "resetGen1", user |-> userId, id |-> id]
    /\ UNCHANGED <<now, ticks, categories, seq, schema>>

\* GET /api/tasks of that server: the sender's tasks whose category is
\* stored, with the flag columns as they are stored; category_id 0 is a
\* request without the filter.
ListTasksGen1(userId, category_id) ==
    /\ resp' = [op |-> "listGen1", status |-> 200, user |-> userId,
                tasks |-> {t \in tasks :
                              /\ t.user_id = userId
                              /\ \E c \in categories : c.id = t.category_id
                              /\ category_id # 0 => t.category_id = category_id}]
    /\ pre' = NoPre
    /\ req' = [op |-> "listGen1", user |-> userId, category_id |-> category_id]
    /\ UNCHANGED <<now, ticks, categories, tasks, completions, seq, schema>>

\* PATCH /api/tasks/:id/reset of that server.
ResetTaskGen1(userId, id) ==
    /\ IF OwnedTask(id, userId) = {}
       THEN /\ resp' = [op |-> "resetGen1", status |-> 404]
            /\ UNCHANGED tasks
       ELSE LET task == CHOOSE t \in OwnedTask(id, userId) : TRUE IN
            /\ tasks' = (tasks \ {task}) \cup {[task EXCEPT !.completed = 0]}
            /\ resp' = [op |-> "resetGen1", status |-> 200, task |-> task,
                        completed |-> 0]
    /\ pre' = NoPre
    /\ req' = [op |-> "resetGen1", user |-> userId, id |-> id]
    /\ UNCHANGED <<now, ticks, categories, completions, seq, schema>>

\* GET /api/completions of that server: the sweep, then the facts of the
\* sender between start_date and end_date whose task is stored.
GetCompletionsGen1(userId, start_date, end_date, utc) ==
    /\ IF start_date = Undef \/ end_date = Undef
       THEN /\ resp' = [op |-> "completionsGen1", status |-> 400]
            /\ UNCHANGED completions
       ELSE LET swept == cleanupOldCompletions_Gen1(completions, now, utc) IN
            /\ completions' = swept
            /\ resp' = [op |-> "completionsGen1", status |-> 200,
                        cutoff |-> formatDate(AddDays(
                                      setMonth(now, getMonth(now) - 3), utc)),
                        facts |-> {c \in Rows(swept) :
                                      /\ \E t \in tasks : t.id = c.task_id
                                      /\ c.user_id = userId
                                      /\ c.completed_date >= start_date[2]
                                      /\ c.completed_date <= end_date[2]}]
    /\ pre' = NoPre
    /\ req' = [op |-> "completionsGen1", user |-> userId,
                start_date |-> start_date, end_date |-> end_date]
    /\ UNCHANGED <<now, ticks, categories, tasks, seq, schema>>

\* The clock moves to the next day and past the retention period.
Gen1Jumps == {1, 92}

\* The server runs west of Greenwich: the UTC date of a request is the local
\* date or the day after it.
Gen1Shifts == {0, 1}

\* The windows of the history queries: none, and one that begins before
\* the retention cutoff and ends yesterday.
Gen1Windows ==
    {[start_date |-> Undef, end_date |-> Undef],
     [start_date |-> Val(20230101), end_date |-> Val(20240109)]}

\* The facts the flag columns of the file stand for: one for every task
\* with completed = 1 and a last_completed, dated last_completed's date.
FlaggedFactsOf(taskRows) ==
    {[task_id |-> t.id, completed_date |-> SplitT(t.last_completed[1])] :
        t \in {x \in taskRows : x.completed = 1 /\ x.last_completed # NULL}}

FlaggedFacts == FlaggedFactsOf(tasks)

\* The flag columns and the ledger agree: the ledger holds the fact of
\* every flagged task.
FlagsAgree(taskRows, table) ==
    \A f \in FlaggedFactsOf(taskRows) :
        \E c \in Rows(table) :
            c.task_id = f.task_id /\ c.completed_date = f.completed_date

FlagsInLedger == FlagsAgree(tasks, completions)

\* A database file of an earlier server; where it has a ledger, the ledger
\* agrees with the flag columns.
InitGen1 ==
    /\ InitMigrate
    /\ schema.hasLedger => FlagsInLedger

NextGen1 ==
    \/ \E d \in Gen1Jumps : ticks < MaxTicks /\ Tick(d) /\ Persisted
    \/ \E utc \in Gen1Shifts : StartGen1(utc) /\ Persisted
    \/ StartOnFile /\ Persisted
    \/ \E u \in Users, i \in 1..MaxPairTasks :
          ListeningGen1 /\ ToggleTaskGen1(u, i, 0, 0) /\ Persisted
    \/ \E utc \in Gen1Shifts, x \in {0, 2} :
          /\ ListeningGen1
          /\ utc + x # 0
          /\ x # 0 => ticks < MaxTicks
          /\ ToggleTaskGen1("u1", 1, utc, x)
          /\ Persisted
    \/ \E u \in Users, i \in 1..MaxPairTasks :
          ListeningGen1 /\ ResetTaskGen1(u, i) /\ Persisted
    \/ \E u \in Users, w \in Gen1Windows :
          ListeningGen1 /\ GetCompletionsGen1(u, w.start_date, w.end_date, 0) /\ Persisted
    \/ \E u \in Users : Listening /\ ListTasks(u, 0, TRUE, 0) /\ Persisted
    \/ \E u \in Users, c \in 0..1 :
          ListeningGen1 /\ ListTasksGen1(u, c) /\ Persisted

SpecGen1 == InitGen1 /\ [][NextGen1]_vars

-----------------------------------------------------------------------------
(* Specification SpecBoot: the process of the final server from its start   *)
(* on a database file to its requests, with a disk whose writes may fail.   *)
(* The tables and the schema are the database in memory, file is the        *)
(* snapshot fs.writeFileSync last wrote.                                     *)

\* The schema of a database that holds no table.
NoTables ==
    [hasUserId |-> FALSE, hasResetDay |-> FALSE, hasLedger |-> FALSE,
     hasLedgerUserId |-> FALSE, hasCompleted |-> FALSE,
     hasChildId |-> FALSE, categories_unique |-> "no table"]

\* A database file without tables.
EmptyDatabase ==
    [schema |-> NoTables, categories |-> {}, tasks |-> {},
     completions |-> SetToBag({}), seq |-> [categories |-> 0, tasks |-> 0]]

\* createTables(): CREATE TABLE IF NOT EXISTS for categories, tasks and
\* task_completions.  Called on a database without the table categories:
\* one without any table gets the three tables of the final schema, empty;
\* in one that holds the tasks table of the earliest server that table
\* stays as it is, and categories and task_completions are created.
createTables(store) ==
    [store EXCEPT !.schema =
        IF @.hasChildId
        THEN [@ EXCEPT !.hasUserId = TRUE, !.hasLedger = TRUE,
                       !.categories_unique = "user_id, name"]
        ELSE FreshSchema]

\* migrateDatabase from where it stands to its next saveDatabase(): the
\* first of its steps that the schema of the database calls for, or the
\* database itself when none does.
migrateDatabaseStep(store) ==
    LET sch == store.schema
        tasks_new ==
            {[id |-> t.id, user_id |-> t.user_id, title |-> t.title,
              frequency |-> t.frequency, category_id |-> t.category_id,
              reset_day |-> t.reset_day] : t \in store.tasks}
    IN  IF sch.categories_unique = "no table" THEN createTables(store)
        ELSE IF ~sch.hasUserId
        THEN [store EXCEPT !.schema.hasUserId = TRUE,
                           !.categories = WithUserId(sch, @),
                           !.tasks = WithUserId(sch, @)]
        ELSE IF ~sch.hasResetDay
        THEN [store EXCEPT !.schema.hasResetDay = TRUE,
                           !.tasks = WithResetDay(sch, @)]
        ELSE IF ~sch.hasLedger
        THEN [store EXCEPT
                 !.schema.hasLedger = TRUE,
                 !.completions =
                     InsertAllOrIgnore(SetToBag({}),
                         {[task_id |-> t.id,
                           completed_date |-> SplitT(t.last_completed[1])] :
                              t \in {x \in store.tasks :
                                        x.completed = 1 /\ x.last_completed # NULL}})]
        ELSE IF sch.hasLedgerUserId
        THEN [store EXCEPT !.schema.hasLedgerUserId = FALSE,
                           !.completions = CopyCompletions(@)]
        ELSE IF sch.hasCompleted
        THEN [store EXCEPT !.schema.hasCompleted = FALSE,
                           !.tasks = tasks_new,
                           !.seq.tasks = MaxId(tasks_new)]
        ELSE store

\* migrateDatabase has nothing left to do on the database in memory: none
\* of its checks of the schema calls for a step.
MigrationDone ==
    /\ schema.categories_unique # "no table"
    /\ schema.hasUserId
    /\ schema.hasResetDay
    /\ schema.hasLedger
    /\ ~schema.hasLedgerUserId
    /\ ~schema.hasCompleted

\* The process is started on a database file: an empty one, or one an
\* earlier server left.
InitBoot ==
    \E x \in LegacyStores \cup {<<>>}, deleted \in BOOLEAN :
        LET legacy == IF x = <<>> THEN EmptyDatabase
                      ELSE LegacyStoresAfterDelete(x, deleted) IN
        /\ deleted => (x # <<>> /\ 2 \in x[3])
        /\ now = StartDay
        /\ ticks = 0
        /\ categories = legacy.categories
        /\ tasks = legacy.tasks
        /\ completions = legacy.completions
        /\ seq = legacy.seq
        /\ resp = NoResponse
        /\ pre = NoPre
        /\ req = NoRequest
        /\ schema = legacy.schema
        /\ phase = "starting"
        /\ file = Store

\* One step of migrateDatabase (or createTables) with its saveDatabase().
\* saved: fs.writeFileSync returns; otherwise it throws, initDatabase
\* rejects and the catch of the start-up calls process.exit(1).
MigrateStep(saved) ==
    /\ phase = "starting"
    /\ ~MigrationDone
    /\ LET next == migrateDatabaseStep(Store) IN
       /\ schema' = next.schema
       /\ categories' = next.categories
       /\ tasks' = next.tasks
       /\ completions' = next.completions
       /\ seq' = next.seq
       /\ file' = IF saved THEN next ELSE file
    /\ phase' = IF saved THEN "starting" ELSE "exited"
    /\ resp' = [op |-> "migrate", failed |-> ~saved]
    /\ pre' = NoPre
    /\ req' = [op |-> "startup"]
    /\ UNCHANGED <<now, ticks>>

\* The faults of the retention sweep: none, db.run throws, or db.run
\* deletes and saveDatabase() throws.
SweepFaults == {"none", "run", "save"}

\* The sweep of the start-up without its try and catch: what it throws
\* rejects initDatabase.
SweepAtStart_Uncaught(fault) ==
    /\ phase = "starting"
    /\ MigrationDone
    /\ completions' = IF fault = "run" THEN completions
                      ELSE cleanupOldCompletions(completions, now)
    /\ file' = IF fault = "none"
               THEN [Store EXCEPT !.completions = cleanupOldCompletions(completions, now)]
               ELSE file
    /\ phase' = IF fault = "none" THEN "initialized" ELSE "exited"
    /\ resp' = [op |-> "sweep", failed |-> fault # "none",
                cutoff |-> getCompletionCutoffDate(now)]
    /\ pre' = NoPre
    /\ req' = [op |-> "startup"]
    /\ UNCHANGED <<now, ticks, categories, tasks, seq, schema>>

\* cleanupOldCompletions() at the end of initDatabase: the DELETE, then
\* saveDatabase(), inside try and catch; initDatabase resolves either way.
SweepAtStart(fault) ==
    /\ phase = "starting"
    /\ MigrationDone
    /\ completions' = IF fault = "run" THEN completions
                      ELSE cleanupOldCompletions(completions, now)
    /\ file' = IF fault = "none"
               THEN [Store EXCEPT !.completions = cleanupOldCompletions(completions, now)]
               ELSE file
    /\ phase' = "initialized"
    /\ resp' = [op |-> "sweep", failed |-> fault # "none",
                cutoff |-> getCompletionCutoffDate(now)]
    /\ pre' = NoPre
    /\ req' = [op |-> "startup"]
    /\ UNCHANGED <<now, ticks, categories, tasks, seq, schema>>

\* app.listen called at the start of the process, without waiting for
\* initDatabase.
Listen_Eager ==
    /\ phase = "starting"
    /\ phase' = "listening"
    /\ resp' = [op |-> "listen"]
    /\ pre' = NoPre
    /\ req' = [op |-> "startup"]
    /\ UNCHANGED <<now, ticks, categories, tasks, completions, seq, schema, file>>

\* initDatabase().then(() => app.listen(...)): the server starts to accept
\* requests once initDatabase has resolved.
Listen ==
    /\ phase = "initialized"
    /\ phase' = "listening"
    /\ resp' = [op |-> "listen"]
    /\ pre' = NoPre
    /\ req' = [op |-> "startup"]
    /\ UNCHANGED <<now, ticks, categories, tasks, completions, seq, schema, file>>

\* The process is started again, after it exited or was stopped: it loads
\* the snapshot.
StartProcess ==
    /\ phase \in {"exited", "listening"}
    /\ phase' = "starting"
    /\ schema' = file.schema
    /\ categories' = file.categories
    /\ tasks' = file.tasks
    /\ completions' = file.completions
    /\ seq' = file.seq
    /\ resp' = [op |-> "start"]
    /\ pre' = NoPre
    /\ req' = [op |-> "startup"]
    /\ UNCHANGED <<now, ticks, file>>

\* POST /api/categories on a disk whose write may fail.  saved: the
\* saveDatabase() of runQuery returns; otherwise it throws after db.run has
\* inserted the row, and the catch of the handler answers 500.
CreateCategorySaving(userId, name, saved) ==
    /\ phase = "listening"
    /\ IF name = ""
       THEN /\ resp' = [op |-> "createCategory", status |-> 400,
                        error |-> "Name is required"]
            /\ UNCHANGED <<categories, seq, file>>
       ELSE IF CategoryConflict(userId, name)
       THEN /\ resp' = [op |-> "createCategory", status |-> 400,
                        error |-> "Category already exists"]
            /\ UNCHANGED <<categories, seq, file>>
       ELSE LET id == seq.categories + 1
                row == [id |-> id, user_id |-> userId, name |-> name]
            IN  /\ categories' = categories \cup {row}
                /\ seq' = [seq EXCEPT !.categories = id]
                /\ file' = IF saved
                           THEN [Store EXCEPT !.categories = @ \cup {row},
                                              !.seq.categories = id]
                           ELSE file
                /\ resp' = IF saved
                           THEN [op |-> "createCategory", status |-> 200,
                                 id |-> id, name |-> name]
                           ELSE [op |-> "createCategory", status |-> 500,
                                 error |-> "write failed"]
    /\ pre' = NoPre
    /\ req' = [op |-> "createCategory", user |-> userId, name |-> name]
    /\ UNCHANGED <<now, ticks, tasks, completions, schema, phase>>

\* DELETE /api/categories/:id on a disk whose write may fail.  failing: 0
\* when both runQuery calls return, 1 or 2 when the saveDatabase() of the
\* first or of the second throws; the handler has no catch, the framework
\* answers 500.
DeleteCategorySaving(userId, id, failing) ==
    /\ phase = "listening"
    /\ IF OwnedCategory(id, userId) = {}
       THEN /\ resp' = [op |-> "deleteCategory", status |-> 404]
            /\ UNCHANGED <<categories, tasks, file>>
       ELSE LET leftTasks == {t \in tasks :
                                 ~(t.category_id = id /\ t.user_id = userId)}
                leftCategories == {c \in categories :
                                      ~(c.id = id /\ c.user_id = userId)}
            IN  /\ tasks' = leftTasks
                /\ categories' = IF failing = 1 THEN categories
                                 ELSE leftCategories
                /\ file' = IF failing = 1 THEN file
                           ELSE IF failing = 2
                           THEN [Store EXCEPT !.tasks = leftTasks]
                           ELSE [Store EXCEPT !.tasks = leftTasks,
                                              !.categories = leftCategories]
                /\ resp' = [op |-> "deleteCategory",
                            status |-> IF failing = 0 THEN 200 ELSE 500]
    /\ pre' = NoPre
    /\ req' = [op |-> "deleteCategory", user |-> userId, id |-> id]
    /\ UNCHANGED <<now, ticks, completions, seq, schema, phase>>

BootJumps == {92}

NextBoot ==
    \/ \E d \in BootJumps : ticks < MaxTicks /\ Tick(d) /\ UNCHANGED <<phase, file>>
    \/ \E saved \in BOOLEAN : MigrateStep(saved)
    \/ \E fault \in SweepFaults : SweepAtStart(fault)
    \/ Listen
    \/ StartProcess
    \/ \E u \in Users, n \in {"home", "garden"}, saved \in BOOLEAN :
          seq.categories < MaxCategories /\ CreateCategorySaving(u, n, saved)
    \/ \E u \in Users, c \in 1..MaxCategories, failing \in 0..2 :
          DeleteCategorySaving(u, c, failing)
    \/ \E u \in Users, i \in 1..MaxPairTasks :
          phase = "listening" /\ ToggleTask(u, i, 0) /\ Persisted
    \/ \E u \in Users :
          phase = "listening" /\ ListTasks(u, 0, FALSE, 0) /\ UNCHANGED <<phase, file>>

SpecBoot == InitBoot /\ [][NextBoot]_vars

----------------------------------------------------------------------------
(* Specification SpecStart: the final server is started, again and again,  *)
(* on the database file tasks.db that any of the earlier servers left,     *)
(* the earliest one included: its tables are children and tasks, and its   *)
(* tasks name a child.  Every write of the disk succeeds.                  *)

\* The schema of a file of the earliest server: no table categories, no
\* ledger, tasks with child_id and the flag columns.
ChildrenSchema ==
    [hasUserId |-> FALSE, hasResetDay |-> FALSE, hasLedger |-> FALSE,
     hasLedgerUserId |-> FALSE, hasCompleted |-> TRUE,
     hasChildId |-> TRUE, categories_unique |-> "no table"]

\* A row of its tasks table: INSERT INTO tasks (title, frequency,
\* child_id), then any number of toggles.  reset_day is carried as NULL
\* for the ALTER TABLE of a later start.
ChildrenTask(i, f, done) ==
    [id |-> i, title |-> "dishes", frequency |-> f, child_id |-> 1,
     completed |-> IF done THEN 1 ELSE 0,
     last_completed |-> IF done THEN <<<<20240110, "T10:00:00.000Z">>>>
                        ELSE NULL,
     reset_day |-> NULL]

\* The files of the earliest server: up to two tasks of one child.
ChildrenStores ==
    {[schema |-> ChildrenSchema, categories |-> {}, tasks |-> rows,
      completions |-> SetToBag({}),
      seq |-> [categories |-> 0, tasks |-> Cardinality(rows)]] :
        rows \in {{}} \cup
                 {{ChildrenTask(1, f, d)} : f \in Frequencies, d \in BOOLEAN}
                 \cup
                 {{ChildrenTask(1, "weekly", d), ChildrenTask(2, f, e)} :
                     f \in Frequencies, d \in BOOLEAN, e \in BOOLEAN}}

InitStart ==
    \E writer \in {"none", "earliest", "later"},
       c \in ChildrenStores, x \in LegacyStores :
        LET legacy == IF writer = "none" THEN EmptyDatabase
                      ELSE IF writer = "earliest" THEN c
                      ELSE LegacyStore(x[1], x[2], x[3], x[4]) IN
        /\ now = StartDay
        /\ ticks = 0
        /\ categories = legacy.categories
        /\ tasks = legacy.tasks
        /\ completions = legacy.completions
        /\ seq = legacy.seq
        /\ resp = NoResponse
        /\ pre = NoPre
        /\ req = NoRequest
        /\ schema = legacy.schema
        /\ phase = "starting"
        /\ file = Store

\* The tasks rebuild of migrateDatabase throws: its INSERT ... SELECT reads
\* user_id and category_id from a tasks table that has neither.
RebuildThrows(store) ==
    /\ store.schema.categories_unique # "no table"
    /\ store.schema.hasChildId
    /\ store.schema.hasCompleted

\* The database migrateDatabase leaves in memory, when it returns and when
\* it throws.  Without the table categories it calls createTables and
\* returns.  On the tasks table of the earliest server with categories in
\* place, categories has user_id, reset_day is added where it is missing,
\* the ledger exists without user_id, and the rebuild throws.
migrateDatabaseOnFile(store) ==
    IF store.schema.categories_unique = "no table" THEN createTables(store)
    ELSE IF store.schema.hasChildId
    THEN [store EXCEPT !.schema.hasResetDay = TRUE,
                       !.tasks = WithResetDay(store.schema, @)]
    ELSE migrateDatabase(store)

\* initDatabase of the final server on the loaded file: migrateDatabase,
\* then cleanupOldCompletions; it resolves, or rejects where
\* migrateDatabase throws and the catch of the start-up ends the process.
\* The file holds what the last saveDatabase() wrote.
InitDatabaseOnFile ==
    LET store == migrateDatabaseOnFile(Store)
        thrown == RebuildThrows(Store)
        swept == IF thrown THEN store.completions
                 ELSE cleanupOldCompletions(store.completions, now)
    IN  /\ phase = "starting"
        /\ schema' = store.schema
        /\ categories' = store.categories
        /\ tasks' = store.tasks
        /\ completions' = swept
        /\ seq' = store.seq
        /\ file' = [store EXCEPT !.completions = swept]
        /\ phase' = IF thrown THEN "exited" ELSE "initialized"
        /\ resp' = [op |-> "initDatabase", found |-> schema, failed |-> thrown]
        /\ pre' = NoPre
        /\ req' = [op |-> "startup"]
        /\ UNCHANGED <<now, ticks>>

NextStart ==
    \/ \E d \in BootJumps : ticks < MaxTicks /\ Tick(d) /\ UNCHANGED <<phase, file>>
    \/ InitDatabaseOnFile
    \/ Listen
    \/ StartProcess

SpecStart == InitStart /\ [][NextStart]_vars

----------------------------------------------------------------------------
(* Specification SpecRequests: two clients send toggle requests that are   *)
(* in flight together.  A request that has arrived waits in the event loop *)
(* until its handler is called; the handler is a synchronous function      *)
(* (queryOne, runQuery and fs.writeFileSync do not yield), so it runs from *)
(* its first statement to its response as one step of the loop.  pre       *)
(* holds the round: the ledger before its first request, the requests in   *)
(* flight and those handled, in the order of their handling.               *)

Clients == {"a", "b"}

\* A round in which no request has arrived yet, on the ledger table.
NewRound(table) ==
    [op |-> "requests", before |-> table, inflight |-> {}, handled |-> <<>>]

\* The check of the toggle made when the request arrived instead of when
\* its handler runs: on the ledger as the request found it.
existingCompletionOf_AtArrival(table, seen, id, today) ==
    {c \in Rows(seen) :
        c = [task_id |-> id, completed_date |-> today]}

\* queryOne('SELECT * FROM task_completions WHERE task_id = ? AND
\* completed_date = ?'): run by the handler on the table as it is.  seen:
\* the table as it was when the request arrived.
existingCompletionOf(table, seen, id, today) ==
    {c \in Rows(table) :
        c = [task_id |-> id, completed_date |-> today]}

\* A request arrives and waits for its handler; a round of two requests
\* that have been handled is over and the next one starts.
Arrive(client, userId, id) ==
    LET round == IF pre.op # "requests"
                    \/ (pre.inflight = {} /\ Len(pre.handled) = 2)
                 THEN NewRound(completions)
                 ELSE pre
    IN  /\ \A r \in round.inflight : r.client # client
        /\ Cardinality(round.inflight) + Len(round.handled) < 2
        /\ pre' = [round EXCEPT !.inflight =
                      @ \cup {[client |-> client, user |-> userId, id |-> id,
                               seen |-> completions]}]
        /\ resp' = NoResponse
        /\ req' = [op |-> "arrive", client |-> client]
        /\ UNCHANGED <<now, ticks, categories, tasks, completions, seq, schema>>

\* PATCH /api/tasks/:id/toggle, called for a request in flight.
HandleToggle(r) ==
    /\ pre.op = "requests"
    /\ r \in pre.inflight
    /\ IF OwnedTask(r.id, r.user) = {}
       THEN /\ resp' = [op |-> "toggle", status |-> 404]
            /\ pre' = [pre EXCEPT
                          !.inflight = @ \ {r},
                          !.handled = Append(@, [client |-> r.client,
                                                  id |-> r.id, status |-> 404])]
            /\ UNCHANGED completions
       ELSE LET task  == CHOOSE t \in OwnedTask(r.id, r.user) : TRUE
                today == getTodayDate(now)
                existingCompletion ==
                    existingCompletionOf(completions, r.seen, r.id, today)
                after == IF existingCompletion # {}
                         THEN DeleteCompletion(completions, r.id, today)
                         ELSE InsertOrIgnore(completions,
                                  [task_id |-> r.id, completed_date |-> today])
            IN  /\ completions' = after
                /\ resp' = [op |-> "toggle", status |-> 200, task |-> task,
                            completed |-> Completed(task, r.user, after, tasks,
                                                    now, now),
                            today |-> today, at |-> now]
                /\ pre' = [pre EXCEPT
                              !.inflight = @ \ {r},
                              !.handled =
                                  Append(@, [client |-> r.client, id |-> r.id,
                                             status |-> 200, today |-> today,
                                             found |-> existingCompletion # {},
                                             from |-> completions,
                                             to |-> after])]
    /\ req' = [op |-> "toggle", user |-> r.user, id |-> r.id]
    /\ UNCHANGED <<now, ticks, categories, tasks, seq, schema>>

NextRequests ==
    \/ \E d \in StoreJumps :
          /\ ticks < MaxTicks
          /\ pre.op = "requests" => pre.inflight = {}
          /\ Tick(d)
          /\ Persisted
    \/ \E c \in Clients, u \in Users, i \in 1..MaxPairTasks :
          Arrive(c, u, i) /\ Persisted
    \/ \E r \in (IF pre.op = "requests" THEN pre.inflight ELSE {}) :
          HandleToggle(r) /\ Persisted

SpecRequests == InitLegacy /\ [][NextRequests]_vars

----------------------------------------------------------------------------
(* Specification SpecGen0: the first server (src/server.js), whose tasks   *)
(* carry the flag completed and the timestamp last_completed and whose     *)
(* list resets the flag.  An instant of its clock is <<date, late>>: the   *)
(* local calendar day and whether the time of day is the later of two,     *)
(* 02:00 and 14:00 in a zone four hours east of UTC.  A timestamp is the   *)
(* UTC text of an instant.                                                 *)

Gen0Tasks == 2
Gen0Ticks == 2
\* Day changes that bring the clock to the day after a toggle, to the day a
\* week after it and to the day a month after it.
Gen0Jumps == {1, 7, 31}

\* The schema the first server creates.
Gen0Schema ==
    [hasUserId |-> FALSE, hasResetDay |-> FALSE, hasLedger |-> FALSE,
     hasLedgerUserId |-> FALSE, hasCompleted |-> TRUE,
     hasChildId |-> FALSE, categories_unique |-> "name"]

\* The date of the text 'YYYY-MM-DD', read as the number YYYYMMDD.
parseDate(text) == <<text \div 10000, (text \div 100) % 100, text % 100>>

\* date.toISOString() of an instant: 14:00 local is 10:00 UTC of the same
\* day, 02:00 local is 22:00 UTC of the day before.
toISOStringOf(instant) ==
    IF instant[2]
    THEN <<formatDate(instant[1]), "T10:00:00.000Z">>
    ELSE <<formatDate(AddDays(instant[1], 0 - 1)), "T22:00:00.000Z">>

\* new Date(timestamp): the instant of a UTC text.
DateOf(timestamp) ==
    IF timestamp[2] = "T10:00:00.000Z"
    THEN <<parseDate(timestamp[1]), TRUE>>
    ELSE <<AddDays(parseDate(timestamp[1]), 1), FALSE>>

\* a < b on two instants.
Before(a, b) ==
    \/ DayNumber(a[1]) < DayNumber(b[1])
    \/ a[1] = b[1] /\ ~a[2] /\ b[2]

\* The clock does not run backwards: no stored timestamp is later than the
\* instant a request reads.
ClockReads(instant) ==
    \A t \in tasks :
        t.last_completed # NULL => ~Before(instant, DateOf(t.last_completed[1]))

\* The reset decision of the list without its daily branch.
shouldReset_NoDaily(task, instant) ==
    LET lastCompleted == DateOf(task.last_completed[1])
        weekAgo == <<setDate(instant[1], getDate(instant[1]) - 7), instant[2]>>
        monthAgo == <<setMonth(instant[1], getMonth(instant[1]) - 1), instant[2]>>
    IN  IF task.frequency = "weekly" THEN Before(lastCompleted, weekAgo)
        ELSE IF task.frequency = "monthly" THEN Before(lastCompleted, monthAgo)
        ELSE FALSE

\* shouldReset of GET /api/tasks for a task with completed set and
\* last_completed not NULL, at the instant the handler read.
shouldReset(task, instant) ==
    LET lastCompleted == DateOf(task.last_completed[1])
        weekAgo == <<setDate(instant[1], getDate(instant[1]) - 7), instant[2]>>
        monthAgo == <<setMonth(instant[1], getMonth(instant[1]) - 1), instant[2]>>
    IN  IF task.frequency = "daily" THEN instant[1] # lastCompleted[1]
        ELSE IF task.frequency = "weekly" THEN Before(lastCompleted, weekAgo)
        ELSE IF task.frequency = "monthly" THEN Before(lastCompleted, monthAgo)
        ELSE FALSE

InitGen0 ==
    /\ now = StartDay
    /\ ticks = 0
    /\ categories = {}
    /\ tasks = {}
    /\ completions = SetToBag({})
    /\ seq = [categories |-> 0, tasks |-> 0]
    /\ resp = NoResponse
    /\ pre = NoPre
    /\ req = NoRequest
    /\ schema = Gen0Schema
    /\ phase = "listening"
    /\ file = Store

\* POST /api/categories of the first server, with a name.
CreateCategoryGen0(name) ==
    /\ IF \E c \in categories : c.name = name
       THEN /\ resp' = [op |-> "createCategory", status |-> 400,
                        error |-> "Category name already exists"]
            /\ UNCHANGED <<categories, seq>>
       ELSE LET id == seq.categories + 1 IN
            /\ categories' = categories \cup
                                {[id |-> id, user_id |-> NULL, name |-> name]}
            /\ seq' = [seq EXCEPT !.categories = id]
            /\ resp' = [op |-> "createCategory", status |-> 200,
                        id |-> id, name |-> name]
    /\ pre' = NoPre
    /\ req' = [op |-> "createCategory", name |-> name]
    /\ UNCHANGED <<now, ticks, tasks, completions, schema>>

\* POST /api/tasks of the first server, with a title, a frequency the
\* CHECK constraint admits and a category_id: completed gets its default 0
\* and last_completed is NULL.
CreateTaskGen0(frequency, category_id) ==
    LET id == seq.tasks + 1 IN
    /\ tasks' = tasks \cup
          {[id |-> id, user_id |-> NULL, title |-> "dishes",
            frequency |-> frequency, category_id |-> category_id,
            reset_day |-> NULL, completed |-> 0, last_completed |-> NULL]}
    /\ seq' = [seq EXCEPT !.tasks = id]
    /\ resp' = [op |-> "createTask", status |-> 200, id |-> id]
    /\ pre' = NoPre
    /\ req' = [op |-> "createTask", frequency |-> frequency,
               category_id |-> category_id]
    /\ UNCHANGED <<now, ticks, categories, completions, schema>>

\* PATCH /api/tasks/:id/toggle of the first server, at the time of day
\* late.
ToggleTaskGen0(id, late) ==
    /\ ClockReads(<<now, late>>)
    /\ IF {t \in tasks : t.id = id} = {}
       THEN /\ resp' = [op |-> "toggle", status |-> 404]
            /\ UNCHANGED tasks
       ELSE LET task == CHOOSE t \in tasks : t.id = id
                newCompleted == IF task.completed # 0 THEN 0 ELSE 1
                lastCompleted == IF newCompleted # 0
                                 THEN <<toISOStringOf(<<now, late>>)>>
                                 ELSE NULL
                row == [task EXCEPT !.completed = newCompleted,
                                    !.last_completed = lastCompleted]
            IN  /\ tasks' = (tasks \ {task}) \cup {row}
                /\ resp' = [op |-> "toggle", status |-> 200, task |-> row]
    /\ pre' = NoPre
    /\ req' = [op |-> "toggle", id |-> id, at |-> <<now, late>>]
    /\ UNCHANGED <<now, ticks, categories, completions, seq, schema>>

\* GET /api/tasks of the first server, at the time of day late: the rows
\* of the tasks whose category exists; a row with completed set and a
\* timestamp that shouldReset names gets completed = 0, in the table and
\* in the response.
ListTasksGen0(late) ==
    LET instant == <<now, late>>
        listed == {t \in tasks : \E c \in categories : c.id = t.category_id}
        Reset(t) == /\ t.completed # 0
                    /\ t.last_completed # NULL
                    /\ shouldReset(t, instant)
                    /\ t.frequency # "one-time"
        After(t) == IF Reset(t) THEN [t EXCEPT !.completed = 0] ELSE t
    IN  /\ ClockReads(instant)
        /\ tasks' = (tasks \ listed) \cup {After(t) : t \in listed}
        /\ resp' = [op |-> "listGen0", status |-> 200, at |-> instant,
                    tasks |-> {After(t) : t \in listed}]
        /\ pre' = NoPre
        /\ req' = [op |-> "listGen0"]
        /\ UNCHANGED <<now, ticks, categories, completions, seq, schema>>

NextGen0 ==
    \/ \E d \in Gen0Jumps : ticks < Gen0Ticks /\ Tick(d) /\ Persisted
    \/ seq.categories < 1 /\ CreateCategoryGen0("home") /\ Persisted
    \/ \E f \in Frequencies :
          seq.tasks < Gen0Tasks /\ CreateTaskGen0(f, 1) /\ Persisted
    \/ \E i \in 1..Gen0Tasks, late \in BOOLEAN : ToggleTaskGen0(i, late) /\ Persisted
    \/ \E late \in BOOLEAN : ListTasksGen0(late) /\ Persisted

SpecGen0 == InitGen0 /\ [][NextGen0]_vars

----------------------------------------------------------------------------
(* Specification SpecCalc: the date helpers on every day of a range that   *)
(* holds a leap February, a common February and two turns of the year.     *)

CalcFirst == DaysFromCivil(2023, 12, 1)
\* The range ends on 2025-03-31.
CalcSpan == 486
CalcDays == {CivilFromDays(n) : n \in CalcFirst..(CalcFirst + CalcSpan)}

\* Tasks with every reset day the data model allows, and with none.
CalcTasks ==
    {[id |-> 1, frequency |-> f, reset_day |-> NULL] : f \in Frequencies}
    \cup {[id |-> 1, frequency |-> "weekly", reset_day |-> <<r>>] : r \in 0..6}
    \cup {[id |-> 1, frequency |-> "monthly", reset_day |-> <<r>>] : r \in 1..31}

InitCalc ==
    /\ now \in CalcDays
    /\ ticks = 0
    /\ categories = {}
    /\ tasks = {}
    /\ completions = SetToBag({})
    /\ seq = [categories |-> 0, tasks |-> 0]
    /\ resp = NoResponse
    /\ pre = NoPre
    /\ req = NoRequest
    /\ schema = FreshSchema
    /\ phase = "listening"
    /\ file = Store

PeriodStartOf(task) ==
    /\ resp' = [op |-> "periodStart", task |-> task,
                periodStart |-> getPeriodStartDate(task, now)]
    /\ UNCHANGED <<now, ticks, categories, tasks, completions, seq, pre, req,
                   schema>>

CutoffOf ==
    /\ resp' = [op |-> "cutoff", cutoff |-> getCompletionCutoffDate(now)]
    /\ UNCHANGED <<now, ticks, categories, tasks, completions, seq, pre, req,
                   schema>>

NextCalc ==
    \/ \E t \in CalcTasks : PeriodStartOf(t) /\ Persisted
    \/ CutoffOf /\ Persisted

SpecCalc == InitCalc /\ [][NextCalc]_vars

----------------------------------------------------------------------------
(* Properties.                                                             *)

\* The parts of a date text YYYYMMDD.
TextYear(text) == text \div 10000
TextMonth(text) == (text \div 100) % 100
TextDay(text) == text % 100
\* The Date a date text names.
ParseDate(text) == <<TextYear(text), TextMonth(text), TextDay(text)>>
\* The same day-of-month one month later / three months earlier, as texts.
NextMonthText(text) ==
    IF TextMonth(text) = 12
    THEN (TextYear(text) + 1) * 10000 + 100 + TextDay(text)
    ELSE text + 100
ThreeMonthsBackText(text) ==
    IF TextMonth(text) > 3
    THEN text - 300
    ELSE (TextYear(text) - 1) * 10000 + (TextMonth(text) + 9) * 100 + TextDay(text)

\* The completed statuses a response reports: the task, the status and the
\* day the clock showed when the status was computed.
ReportedEntries(r) ==
    IF r.op = "list" THEN r.tasks
    ELSE IF r.op \in {"toggle", "edit"} /\ r.status = 200
    THEN {[task |-> r.task, completed |-> r.completed, at |-> r.at]}
    ELSE {}

\* The status list-tasks would report for a task of the store right now.
StatusNow(t) == Completed(t, t.user_id, completions, tasks, now, now)

FactsOf(id) == {c \in Rows(completions) : c.task_id = id}

\* C1: every completed status that list-tasks, toggle and edit report is 1
\* exactly when the ledger holds a fact of the task dated on or after the
\* task's period start.
C1_StatusIffFactSincePeriodStart ==
    \A e \in ReportedEntries(resp) :
        e.completed = 1 <=>
            \E c \in FactsOf(e.task.id) :
                c.completed_date >= getPeriodStartDate(e.task, e.at)

\* C2: a one-time task with a fact in the ledger is reported complete after
\* every step that is not a toggle of that task, whatever time passes and
\* however often the sweep runs.
C2_OneTimeStaysComplete ==
    [][\A t \in tasks :
          (/\ t.frequency = "one-time"
           /\ t \in tasks'
           /\ FactsOf(t.id) # {}
           /\ ~(resp'.op = "toggle" /\ resp'.status = 200 /\ resp'.task.id = t.id))
          => StatusNow(t)' = 1]_vars

\* C3: a daily task is reported complete exactly when the ledger holds a
\* fact of it dated the day the status is computed on; so for the reported
\* statuses of every response, and for every daily task of the store.
C3_DailyIffFactToday ==
    /\ \A e \in ReportedEntries(resp) :
          e.task.frequency = "daily" =>
              (e.completed = 1 <=>
                  \E c \in FactsOf(e.task.id) : c.completed_date = formatDate(e.at))
    /\ \A t \in tasks :
          t.frequency = "daily" =>
              (StatusNow(t) = 1 <=>
                  \E c \in FactsOf(t.id) : c.completed_date = getTodayDate(now))

\* A list response holds a daily task that is not complete although the
\* ledger has a fact of it, of an earlier day.
C3_Witness ==
    /\ resp.op = "list"
    /\ \E e \in resp.tasks :
          /\ e.task.frequency = "daily"
          /\ e.completed = 0
          /\ \E c \in FactsOf(e.task.id) : c.completed_date < formatDate(e.at)

\* C4: the period start of every weekly task of the store falls on the
\* task's reset weekday, on or before today and at most 6 days before it.
C4_WeeklyPeriodStart ==
    \A t \in tasks :
        t.frequency = "weekly" =>
            LET periodStart == ParseDate(getPeriodStartDate(t, now)) IN
            /\ getDay(periodStart) = Coalesce(t.reset_day, 0)
            /\ DayNumber(periodStart) <= DayNumber(now)
            /\ DayNumber(now) - DayNumber(periodStart) <= 6

\* C5: for a monthly task with reset day R in 1..28 the period start has
\* day-of-month R, is on or before today, and today is before the same day
\* of the following month.
C5_MonthlyPeriod ==
    (/\ resp.op = "periodStart"
     /\ resp.task.frequency = "monthly"
     /\ Coalesce(resp.task.reset_day, 1) \in 1..28)
    => /\ TextDay(resp.periodStart) = Coalesce(resp.task.reset_day, 1)
       /\ TextMonth(resp.periodStart) \in 1..12
       /\ resp.periodStart <= formatDate(now)
       /\ formatDate(now) < NextMonthText(resp.periodStart)

\* On 2024-01-10 the period of a monthly task with reset day 15 started on
\* 2023-12-15.
C5_Witness ==
    /\ resp.op = "periodStart"
    /\ resp.task.frequency = "monthly"
    /\ resp.task.reset_day = <<15>>
    /\ formatDate(now) = 20240110
    /\ resp.periodStart = 20231215

C7_ToggleFrame ==
    [][(resp'.op = "toggle" /\ resp'.status = 200) =>
          LET row == [task_id |-> resp'.task.id, completed_date |-> resp'.today] IN
          /\ BagIn(row, completions') <=> ~BagIn(row, completions)
          /\ BagIn(row, completions') => completions'[row] = 1
          /\ DOMAIN completions' \ {row} = DOMAIN completions \ {row}
          /\ \A r \in DOMAIN completions \ {row} : completions'[r] = completions[r]
          /\ tasks' = tasks
          /\ categories' = categories]_vars

\* A toggle has removed today's fact of its task while the ledger holds a
\* fact of the task for another day and a fact of another task.
C7_Witness ==
    /\ resp.op = "toggle"
    /\ resp.status = 200
    /\ ~BagIn([task_id |-> resp.task.id, completed_date |-> resp.today], completions)
    /\ pre.completions # completions
    /\ \E c \in FactsOf(resp.task.id) : c.completed_date # resp.today
    /\ \E c \in Rows(completions) : c.task_id # resp.task.id

\* C8: the ledger holds at most one row per (task, date); recording a fact
\* it holds and removing a fact it does not hold leave it as it is.
C8_UniqueFacts ==
    /\ \A r \in DOMAIN completions : completions[r] = 1
    /\ \A r \in Rows(completions) : InsertOrIgnore(completions, r) = completions
    /\ \A t \in tasks :
          LET row == [task_id |-> t.id, completed_date |-> getTodayDate(now)] IN
          ~BagIn(row, completions) =>
              DeleteCompletion(completions, t.id, getTodayDate(now)) = completions

\* After a toggle on the day of the start, the ledger holds a fact that the
\* migration of an earlier store put there and today's fact of the same
\* task, and a fact of another task.
C8_Witness ==
    /\ resp.op = "toggle"
    /\ resp.status = 200
    /\ ticks = 0
    /\ \E c \in Rows(completions) : c.completed_date < getTodayDate(now)
    /\ \E c, d \in Rows(completions) :
          c.task_id = d.task_id /\ c.completed_date # d.completed_date
    /\ \E c, d \in Rows(completions) : c.task_id # d.task_id

\* C9: the sweep removes exactly the facts dated before its cutoff, of all
\* users, leaves the tasks and the categories alone, and a second sweep
\* with that cutoff removes nothing.
C9_SweepExact ==
    [][resp'.op = "startup" =>
          /\ DOMAIN completions' =
                {r \in DOMAIN completions : r.completed_date >= resp'.cutoff}
          /\ \A r \in DOMAIN completions' : completions'[r] = completions[r]
          /\ tasks' = tasks
          /\ categories' = categories
          /\ cleanupOldCompletions(completions', now') = completions']_vars

\* A sweep has removed a fact of one user's task and kept a fact of another
\* user's task.
C9_Witness ==
    /\ resp.op = "startup"
    /\ \E r \in resp.swept, k \in Rows(completions) :
          /\ r.completed_date < resp.cutoff
          /\ k.completed_date >= resp.cutoff
          /\ \E t, u \in tasks :
                t.id = r.task_id /\ u.id = k.task_id /\ t.user_id # u.user_id

\* C10: the retention cutoff is today's date three calendar months earlier
\* with the same day-of-month.
C10_CutoffThreeMonthsBack ==
    resp.op = "cutoff" => resp.cutoff = ThreeMonthsBackText(formatDate(now))

\* C11: every completion record of the ledger refers to a task of the
\* store: deleting a task or a category leaves no completion record of a
\* deleted task behind.
C11_FactsOfStoredTasks ==
    \A c \in Rows(completions) : \E t \in tasks : t.id = c.task_id

\* The owners of stored rows: the clients and the owner a migration names.
Owners == Users \cup {LEGACY_USER_ID}

\* What a user owns: its categories, its tasks and, through its tasks, the
\* completion facts of the ledger.
OwnedView(u) ==
    [categories |-> {c \in categories : c.user_id = u},
     tasks |-> {t \in tasks : t.user_id = u},
     facts |-> {c \in Rows(completions) :
                   \E t \in tasks : t.id = c.task_id /\ t.user_id = u}]

\* The owners of the rows a response carries.
ResponseOwners(r) ==
    IF r.op = "list"
    THEN {e.task.user_id : e \in r.tasks}
         \cup (IF "completions" \in DOMAIN r
               THEN {t.user_id : t \in {x \in tasks : x.id \in DOMAIN r.completions}}
               ELSE {})
    ELSE IF r.op = "listCategories" THEN {c.user_id : c \in r.categories}
    ELSE IF r.op \in {"toggle", "edit", "createTask"} /\ r.status = 200
    THEN {r.task.user_id}
    ELSE {}

\* C12: a request of user A leaves what every other user owns as it was,
\* its response carries rows of A only, and what it changes in the facts
\* of A's own tasks is what it asks for, whatever the rest of the store
\* holds: a task it creates has no fact, and the facts of A's other tasks
\* stay, but for the fact a toggle records or removes.
C12_UserIsolation ==
    [][req'.op \notin {"none", "startup"} =>
          LET A == req'.user
              toggled == IF resp'.op = "toggle" /\ resp'.status = 200
                         THEN {[task_id |-> resp'.task.id,
                                completed_date |-> resp'.today]}
                         ELSE {}
          IN  /\ \A B \in Owners \ {A} : OwnedView(B)' = OwnedView(B)
              /\ ResponseOwners(resp') \subseteq {A}
              /\ \A t \in tasks' :
                    t.user_id = A =>
                        FactsOf(t.id)' \ toggled =
                            (IF \E x \in tasks : x.id = t.id
                             THEN FactsOf(t.id) ELSE {}) \ toggled]_vars

\* The request names a task, or a category, that its sender does not own:
\* one that is not stored, or one of another user.
NamesForeignId(r) ==
    \/ /\ r.op \in {"toggle", "edit", "deleteTask"}
       /\ ~ \E t \in tasks : t.id = r.id /\ t.user_id = r.user
    \/ /\ r.op = "deleteCategory"
       /\ ~ \E c \in categories : c.id = r.id /\ c.user_id = r.user
    \/ /\ r.op = "createTask"
       /\ r.title # "" /\ r.frequency # "" /\ r.category_id # 0
       /\ ~ \E c \in categories : c.id = r.category_id /\ c.user_id = r.user

\* C13: toggle, edit and delete of a task, delete of a category and
\* create-task under a category answer a request that names an id that is
\* not stored and a request that names an id of another user with the same
\* not-found response, and leave the store unchanged.
C13_NotFoundAlike ==
    [][NamesForeignId(req') =>
          /\ resp' = [op |-> req'.op, status |-> 404]
          /\ UNCHANGED <<categories, tasks, completions, seq>>]_vars

\* A user's delete of another user's category, which holds a task, has
\* been answered not-found.
C13_Witness ==
    /\ req.op = "deleteCategory"
    /\ resp.status = 404
    /\ \E c \in categories :
          /\ c.id = req.id
          /\ c.user_id # req.user
          /\ \E t \in tasks : t.category_id = c.id

\* C14: create-category with a name fails with the conflict error, and
\* leaves the categories as they were, exactly when its sender already has
\* a category of that name; otherwise the category is added, whatever the
\* other owners hold.
C14_UniquePerOwner ==
    [][(req'.op = "createCategory" /\ req'.name # "") =>
          IF \E c \in categories : c.user_id = req'.user /\ c.name = req'.name
          THEN /\ resp' = [op |-> "createCategory", status |-> 400,
                           error |-> "Category already exists"]
               /\ categories' = categories
          ELSE /\ resp'.status = 200
               /\ categories' = categories \cup
                      {[id |-> resp'.id, user_id |-> req'.user, name |-> req'.name]}]_vars

\* The request lacks a required field: a create-category without name, a
\* create-task without title, frequency or category, an edit without
\* fields of a task of its sender.
LacksRequiredField(r) ==
    \/ r.op = "createCategory" /\ r.name = ""
    \/ /\ r.op = "createTask"
       /\ (r.title = "" \/ r.frequency = "" \/ r.category_id = 0)
    \/ /\ r.op = "edit"
       /\ r.title = Undef /\ r.frequency = Undef /\ r.reset_day = Undef
       /\ \E t \in tasks : t.id = r.id /\ t.user_id = r.user

\* C15: a request that lacks a required field is answered with the
\* validation error, and categories, tasks and ledger stay as they were.
C15_ValidationRejects ==
    [][LacksRequiredField(req') =>
          /\ resp'.op = req'.op
          /\ resp'.status = 400
          /\ req'.op = "createCategory" => resp'.error = "Name is required"
          /\ UNCHANGED <<categories, tasks, completions, seq>>]_vars

\* An edit without fields of a stored task with a completion fact has been
\* answered with the validation error.
C15_Witness ==
    /\ req.op = "edit"
    /\ resp.status = 400
    /\ \E t \in tasks : t.id = req.id /\ t.user_id = req.user /\ FactsOf(t.id) # {}

\* C16: every stored task has no reset day when it is daily or one-time, a
\* reset day in 0..6 when it is weekly and in 1..31 when it is monthly.
C16_ResetDayInvariant ==
    \A t \in tasks :
        /\ t.frequency \in {"daily", "one-time"} => t.reset_day = NULL
        /\ t.frequency = "weekly" => t.reset_day # NULL /\ t.reset_day[1] \in 0..6
        /\ t.frequency = "monthly" => t.reset_day # NULL /\ t.reset_day[1] \in 1..31

\* C17: create-task without a reset day stores 0 for a weekly task, 1 for a
\* monthly task and none for a daily or one-time task; a weekly or monthly
\* task without a stored reset day has the period start of the same task
\* with the default stored; and a start that adds the column reset_day
\* leaves every task that was there with 0 if weekly and 1 if monthly.
C17_ResetDayDefaults ==
    [][/\ (/\ req'.op = "createTask"
           /\ resp'.status = 200
           /\ req'.reset_day \in {Undef, Null})
          => /\ resp'.task.reset_day = DefaultResetDay(req'.frequency)
             /\ tasks' = tasks \cup {resp'.task}
       /\ \A t \in tasks' :
             (t.frequency \in {"weekly", "monthly"} /\ t.reset_day = NULL)
             => getPeriodStartDate(t, now') =
                   getPeriodStartDate(
                       [t EXCEPT !.reset_day = DefaultResetDay(t.frequency)], now')
       /\ (req'.op = "startup" /\ ~schema.hasResetDay)
          => /\ schema'.hasResetDay
             /\ \A t \in tasks : \E t2 \in tasks' :
                   /\ t2.id = t.id
                   /\ t2.frequency = t.frequency
                   /\ t.frequency = "weekly" => t2.reset_day = <<0>>
                   /\ t.frequency = "monthly" => t2.reset_day = <<1>>
      ]_vars

\* A file without owners and reset days has been migrated (its tasks belong
\* to the legacy owner, the weekly one with reset day 0 and the monthly one
\* with 1), and u1 has just created a monthly task without giving a reset
\* day, stored with 1.
C17_Witness ==
    /\ resp.op = "createTask"
    /\ resp.status = 200
    /\ req.reset_day = Undef
    /\ req.frequency = "monthly"
    /\ resp.task.reset_day = <<1>>
    /\ resp.task \in tasks
    /\ \E t \in tasks :
          /\ t.user_id = LEGACY_USER_ID
          /\ t.frequency = "weekly"
          /\ t.reset_day = <<0>>

\* C18: an edit that is answered 200 replaces the row of the task by the row
\* with title, frequency and reset day set to what the request gives and
\* kept where it gives nothing; id, owner and category are kept, every other
\* task, the categories and the ledger are unchanged.  An edit answered
\* otherwise changes nothing.
C18_EditFrame ==
    [][req'.op = "edit"
       => /\ completions' = completions
          /\ categories' = categories
          /\ seq' = seq
          /\ resp'.status # 200 => tasks' = tasks
          /\ resp'.status = 200 =>
                \E t \in tasks :
                    LET t2 == resp'.task IN
                    /\ t.id = req'.id
                    /\ t.user_id = req'.user
                    /\ tasks' = (tasks \ {t}) \cup {t2}
                    /\ t2.id = t.id
                    /\ t2.user_id = t.user_id
                    /\ t2.category_id = t.category_id
                    /\ t2.title = IF req'.title = Undef THEN t.title
                                  ELSE req'.title[2]
                    /\ t2.frequency = IF req'.frequency = Undef THEN t.frequency
                                      ELSE req'.frequency[2]
                    /\ t2.reset_day = IF req'.reset_day = Undef THEN t.reset_day
                                      ELSE IF req'.reset_day = Null THEN NULL
                                      ELSE <<req'.reset_day[2]>>
      ]_vars

\* u1's weekly task has just been made monthly by an edit that gives the
\* frequency alone: title and reset day 0 are kept, the task of u2 and the
\* facts of both tasks are in the store.
C18_Witness ==
    /\ resp.op = "edit"
    /\ resp.status = 200
    /\ req.title = Undef
    /\ req.frequency = Val("monthly")
    /\ req.reset_day = Undef
    /\ resp.task.title = "dishes"
    /\ resp.task.frequency = "monthly"
    /\ resp.task.reset_day = <<0>>
    /\ resp.task \in tasks
    /\ \E t \in tasks : t.user_id = "u2"
    /\ \E c \in Rows(completions) : c.task_id = resp.task.id
    /\ \E c \in Rows(completions) : c.task_id # resp.task.id

\* C19: when a server is started on a file without a ledger, the ledger its
\* migration leaves holds, for every task with completed = 1 and a
\* last_completed, a fact of that task dated last_completed's date.
C19_FlagsBackfilled ==
    [][(req'.op = "startup" /\ ~schema.hasLedger)
       => \A f \in FlaggedFacts :
             \E c \in Rows(resp'.migrated) :
                 /\ c.task_id = f.task_id
                 /\ c.completed_date = f.completed_date
      ]_vars

\* The file as the schema transition of the last start left it, before
\* the sweep.
Migrated ==
    [schema |-> schema, categories |-> categories, tasks |-> tasks,
     completions |-> resp.migrated, seq |-> seq]

\* The schema the server with the owner-naming ledger leaves.
Gen1Schema ==
    schema.hasUserId /\ schema.hasResetDay /\ schema.hasLedger

C23_ReadsDoNotWrite ==
    [][req'.op \in {"list", "listCategories"}
       => UNCHANGED <<categories, tasks, completions, seq>>]_vars

\* A list with a category filter and the history map has just been answered
\* with a task and a date of it, in a store whose ledger holds a fact older
\* than the retention cutoff.
C23_Witness ==
    /\ resp.op = "list"
    /\ req.category_id # 0
    /\ req.include_history
    /\ resp.tasks # {}
    /\ DOMAIN resp.completions # {}
    /\ \E c \in Rows(completions) :
          c.completed_date < getCompletionCutoffDate(now)

\* C25: a delete-category answered 200 removes the category, which was the
\* sender's, and exactly the tasks under it: the other categories and the
\* tasks of every other category are as they were, and no task is left
\* under the deleted category.
C25_DeleteCategoryFrame ==
    [][(req'.op = "deleteCategory" /\ resp'.status = 200)
       => /\ \E c \in categories : c.id = req'.id /\ c.user_id = req'.user
          /\ categories' = {c \in categories : c.id # req'.id}
          /\ tasks' = {t \in tasks : t.category_id # req'.id}
      ]_vars

\* A category has just been deleted; of the two tasks created one is no
\* longer stored, and the other owner's category and its task are in the
\* store.
C25_Witness ==
    /\ resp.op = "deleteCategory"
    /\ resp.status = 200
    /\ seq.tasks = 2
    /\ \E t \in tasks :
          /\ t.user_id # req.user
          /\ t.category_id # req.id
          /\ \E c \in categories : c.id = t.category_id
          /\ tasks = {t}
    /\ \A c \in categories : c.id # req.id

\* C26: every task of one list response is evaluated on the same calendar
\* date, and the status a toggle returns is computed on the date of the
\* fact it wrote or removed.
C26_OneDatePerRequest ==
    /\ resp.op = "list"
       => \A e1 \in resp.tasks, e2 \in resp.tasks : e1.at = e2.at
    /\ (resp.op = "toggle" /\ resp.status = 200)
       => formatDate(resp.at) = resp.today

\* A date text that names a day of the calendar.
IsCalendarDate(text) ==
    /\ TextMonth(text) \in 1..12
    /\ TextDay(text) >= 1
    /\ CivilFromDays(DayNumber(ParseDate(text))) = ParseDate(text)

\* C27: for a task of any frequency without a reset day, a weekly task with
\* reset day 0..6 and a monthly task with reset day 1..31, the period start
\* is a date of the calendar on or before today.
C27_PeriodStartNotAfterToday ==
    (/\ resp.op = "periodStart"
     /\ \/ resp.task.reset_day = NULL
        \/ resp.task.frequency = "weekly" /\ resp.task.reset_day[1] \in 0..6
        \/ resp.task.frequency = "monthly" /\ resp.task.reset_day[1] \in 1..31)
    => /\ IsCalendarDate(resp.periodStart)
       /\ resp.periodStart <= formatDate(now)

\* C28: on every day the period start of a daily, weekly or monthly task,
\* with a reset day in range or none, is on or after the cutoff of a sweep
\* of that day: a fact on or after the period start is never swept.
C28_PeriodStartNotSwept ==
    (/\ resp.op = "periodStart"
     /\ resp.task.frequency \in {"daily", "weekly", "monthly"})
    => /\ resp.periodStart >= getCompletionCutoffDate(now)
       /\ \A d \in {resp.periodStart, formatDate(now)} :
             LET fact == [task_id |-> resp.task.id, completed_date |-> d]
                 table == SetToBag({fact})
             IN  cleanupOldCompletions(table, now) = table

\* On 2024-05-30 the period of a monthly task with reset day 31 started on
\* 2024-05-01 (April has no 31st) and the cutoff, rolled over from February
\* 30, is 2024-03-01.
C28_Witness ==
    /\ resp.op = "periodStart"
    /\ resp.task.frequency = "monthly"
    /\ resp.task.reset_day = <<31>>
    /\ now = <<2024, 5, 30>>
    /\ resp.periodStart = 20240501
    /\ getCompletionCutoffDate(now) = 20240301

\* C30: while the server with the flag columns serves the file, a step
\* from a state in which every flagged task has its fact leads to such a
\* state; a toggle that sets the flag leaves today's fact in the ledger; and
\* a toggle that clears the flag leaves no fact dated the last_completed it
\* clears.
C30_FlagMatchesLedger ==
    [][(ListeningGen1 /\ ListeningGen1')
       => /\ FlagsInLedger => FlagsAgree(tasks', completions')
          /\ (/\ req'.op = "toggleGen1"
              /\ resp'.status = 200
              /\ resp'.completed = 1)
             => \E c \in Rows(completions') :
                    c.task_id = req'.id /\ c.completed_date = resp'.today
          /\ (/\ req'.op = "toggleGen1"
              /\ resp'.status = 200
              /\ resp'.completed = 0
              /\ resp'.task.last_completed # NULL)
             => ~\E c \in Rows(completions') :
                    /\ c.task_id = req'.id
                    /\ c.completed_date = SplitT(resp'.task.last_completed[1])
      ]_vars

\* The facts a completions map carries.
HistoryFacts(map) ==
    UNION {{[task_id |-> i, completed_date |-> d] : d \in map[i]} :
              i \in DOMAIN map}

\* The facts of the ledger that belong to stored tasks of user u and are
\* dated on or after the retention cutoff of the day at.
OwnFactsSince(u, at) ==
    {[task_id |-> c.task_id, completed_date |-> c.completed_date] :
        c \in {x \in Rows(completions) :
                  /\ \E t \in tasks : t.id = x.task_id /\ t.user_id = u
                  /\ x.completed_date >= getCompletionCutoffDate(at)}}

\* The date-range query of the server with the owner-naming ledger answers
\* with the facts of the requesting user's stored tasks that lie in the
\* window and on or after the cutoff of its sweep, and with no other fact.
HistoryGen1Exact ==
    (resp.op = "completionsGen1" /\ resp.status = 200) =>
        /\ \A c \in resp.facts :
              /\ c.completed_date >= resp.cutoff
              /\ \E t \in tasks : t.id = c.task_id /\ t.user_id = req.user
        /\ \A c \in Rows(completions) :
              (/\ \E t \in tasks : t.id = c.task_id /\ t.user_id = req.user
               /\ c.completed_date >= req.start_date[2]
               /\ c.completed_date <= req.end_date[2]
               /\ c.completed_date >= resp.cutoff)
              => c \in resp.facts

\* C29: the completions map of GET /api/tasks?include_history=true holds
\* exactly the facts of the requesting user's stored tasks dated on or
\* after the retention cutoff, and when the request before it was the same
\* user's creation of a task, which nobody has completed, the map holds no
\* fact under that task's id.
C29_HistoryOfOwnTasks ==
    [][(req'.op = "list" /\ req'.include_history /\ now' = now)
       => /\ HistoryFacts(resp'.completions) = OwnFactsSince(req'.user, now)
          /\ (/\ resp.op = "createTask"
              /\ resp.status = 200
              /\ req.user = req'.user)
             => resp.task.id \notin DOMAIN resp'.completions
      ]_vars

\* C21: a request is handled only by a listening process whose database
\* migrateDatabase has brought to the final schema, every step saved; the
\* process starts to listen only when initDatabase has resolved on such a
\* database; a migration step whose write fails ends the process, and a
\* process that has exited handles nothing: the next thing to happen is
\* the start of a new process.
C21_ServeAfterMigration ==
    [][/\ req'.op \notin {"none", "startup"} =>
             /\ phase = "listening"
             /\ phase' = "listening"
             /\ MigrationDone
             /\ file.schema = schema
       /\ phase' = "listening" =>
             \/ phase = "listening"
             \/ phase = "initialized" /\ MigrationDone /\ file.schema = schema
       /\ (resp'.op = "migrate" /\ resp'.failed) => phase' = "exited"
       /\ phase = "exited" => phase' \in {"exited", "starting"}
      ]_vars

\* A request is answered on a database that a migration step has changed.
C21_Witness ==
    /\ phase = "listening"
    /\ req.op = "createCategory"
    /\ resp.status = 200
    /\ \E c \in categories : c.user_id = LEGACY_USER_ID

\* The completed status of every stored task, derived from the ledger
\* table on the day at.
StatusOf(taskRows, table, at) ==
    [t \in taskRows |-> Completed(t, t.user_id, table, taskRows, at, at)]

\* C22: a retention sweep that fails, in its DELETE or in the write of the
\* snapshot, does not end the process: initDatabase resolves and the server
\* goes on to listen; the failure is no response to any request; and
\* categories, tasks and the derived status of every task are what they
\* were before the sweep.
C22_SweepFailureSwallowed ==
    [][(resp'.op = "sweep" /\ resp'.failed) =>
          /\ phase' = "initialized"
          /\ req'.op = "startup"
          /\ categories' = categories
          /\ tasks' = tasks
          /\ StatusOf(tasks', completions', now') = StatusOf(tasks, completions, now)
      ]_vars

\* A sweep that had facts to delete has failed and the server listens.
C22_Witness ==
    /\ phase = "initialized"
    /\ resp.op = "sweep"
    /\ resp.failed
    /\ tasks # {}
    /\ \E c \in Rows(file.completions) : c.completed_date < resp.cutoff

\* Two databases are the same: the same schema and, under it, the same
\* rows.
SameStore(a, b) == a.schema = b.schema /\ a = b

\* The operations that write: the requests that create or delete a
\* category or toggle a task, the sweep and the migration steps.
Mutating(r, q) ==
    \/ q.op \in {"createCategory", "deleteCategory", "toggle"}
    \/ r.op \in {"sweep", "migrate"}

\* The operation reports an error to its caller: a response of status 400
\* or above.  (A migration step that fails does not return: the process
\* ends.)
ReportsError(r) ==
    r.op \in {"createCategory", "deleteCategory", "toggle"} /\ r.status >= 400

\* C24: when a mutating operation has returned, the snapshot on disk is
\* the database in memory; and an operation that reports an error has
\* changed neither.
C24_SnapshotIsStore ==
    [][Mutating(resp', req') =>
          /\ phase' # "exited" =>
                SameStore(file',
                          [schema |-> schema', categories |-> categories',
                           tasks |-> tasks', completions |-> completions',
                           seq |-> seq'])
          /\ ReportsError(resp') =>
                /\ SameStore(file', file)
                /\ SameStore([schema |-> schema', categories |-> categories',
                              tasks |-> tasks', completions |-> completions',
                              seq |-> seq'], Store)
      ]_vars

\* C31: on the server with the flag columns, the reset of an owned task
\* leaves the task with completed = 0 whatever the ledger holds, leaves
\* its other columns, every other task and the ledger as they were; the
\* list answers with the stored flags; and a task whose flag is 0 keeps it
\* through every step that is not a toggle of that task.
C31_ResetGen1 ==
    [][(ListeningGen1 /\ ListeningGen1') =>
          /\ (resp'.op = "resetGen1" /\ resp'.status = 200) =>
                /\ resp'.task \in tasks
                /\ resp'.task.id = req'.id
                /\ resp'.task.user_id = req'.user
                /\ tasks' = (tasks \ {resp'.task})
                               \cup {[resp'.task EXCEPT !.completed = 0]}
                /\ completions' = completions
          /\ resp'.op = "listGen1" =>
                /\ resp'.tasks \subseteq tasks'
                /\ req'.category_id = 0 =>
                      \A t \in tasks' :
                         (/\ t.user_id = req'.user
                          /\ \E c \in categories' : c.id = t.category_id)
                         => t \in resp'.tasks
          /\ \A t \in tasks :
                (/\ t.completed = 0
                 /\ ~(req'.op = "toggleGen1" /\ req'.id = t.id /\ resp'.status = 200))
                => \A x \in tasks' : x.id = t.id => x.completed = 0
      ]_vars

\* A task with the flag set and a fact in the ledger has been reset.
C31_Witness ==
    /\ resp.op = "resetGen1"
    /\ resp.status = 200
    /\ resp.task.completed = 1
    /\ \E c \in Rows(completions) : c.task_id = resp.task.id
    /\ \E t \in tasks : t.id = resp.task.id /\ t.completed = 0
                           /\ t.last_completed # NULL

\* C35: every stored task has one of the four frequencies, and a create or
\* an edit that gives another frequency answers with an error and leaves
\* the tasks as they were.
C35_FrequencyDomain ==
    [][/\ \A t \in tasks' : t.frequency \in Frequencies
       /\ (/\ req'.op = "createTask"
           /\ req'.frequency \notin Frequencies)
          => resp'.status >= 400 /\ tasks' = tasks
       /\ (/\ req'.op = "edit"
           /\ req'.frequency # Undef
           /\ req'.frequency[2] \notin Frequencies)
          => resp'.status >= 400 /\ tasks' = tasks
      ]_vars

\* The edit of a stored task to a frequency outside the four has been
\* refused by the table's constraint.
C35_Witness ==
    /\ req.op = "edit"
    /\ req.frequency = Val("hourly")
    /\ resp.status = 500
    /\ \E t \in tasks : t.id = req.id /\ t.user_id = req.user

\* The task's reset day is one its frequency has: a weekday 0..6 for a
\* weekly task, a day 1..31 for a monthly one.
HasOwnResetDay(task) ==
    /\ task.frequency = "weekly" =>
          task.reset_day # NULL /\ task.reset_day[1] \in 0..6
    /\ task.frequency = "monthly" =>
          task.reset_day # NULL /\ task.reset_day[1] \in 1..31

\* C38: the completed value a toggle answers with is the negation of the
\* status derived for the task immediately before the toggle; so for every
\* task whose reset day is one its frequency has, the clock staying on one
\* day during the request.
C38_ToggleFlipsStatus ==
    [][(/\ resp'.op = "toggle"
        /\ resp'.status = 200
        /\ now' = now
        /\ formatDate(resp'.at) = resp'.today
        /\ HasOwnResetDay(resp'.task))
       => resp'.completed = 1 - pre'.completed]_vars

\* C37: a toggle that records today's fact of its task, the clock staying
\* on one day during the request, answers completed = 1, and the status
\* derived for the task from the ledger it leaves, which the next list on
\* that day reports, is 1.
C37_InsertMeansComplete ==
    [][(/\ resp'.op = "toggle"
        /\ resp'.status = 200
        /\ now' = now
        /\ formatDate(resp'.at) = resp'.today
        /\ ~BagIn([task_id |-> resp'.task.id, completed_date |-> resp'.today],
                  completions)
        /\ BagIn([task_id |-> resp'.task.id, completed_date |-> resp'.today],
                 completions'))
       => /\ resp'.completed = 1
          /\ Completed(resp'.task, resp'.task.user_id, completions', tasks',
                       now', now') = 1]_vars

\* C39: when create-task has answered, it has reported completed = 0, the
\* ledger holds no fact under the id of the new task, and the status
\* derived for the task, which the next list reports, is 0.
C39_NewTaskNotComplete ==
    (resp.op = "createTask" /\ resp.status = 200) =>
        /\ resp.completed = 0
        /\ FactsOf(resp.task.id) = {}
        /\ \A t \in tasks : t.id = resp.task.id => StatusNow(t) = 0

\* The (task, date) facts of a ledger table.
Facts(table) ==
    {[task_id |-> c.task_id, completed_date |-> c.completed_date] :
        c \in Rows(table)}

\* A task row in the columns the final schema keeps.
KeptColumns(t) ==
    [id |-> t.id, user_id |-> t.user_id, title |-> t.title,
     frequency |-> t.frequency, category_id |-> t.category_id,
     reset_day |-> t.reset_day]

\* C34: the start of the final server on a file of the server with the
\* flag columns and the owner-naming ledger leaves, by its schema
\* transition, the same tasks in id, owner, title, frequency, category and
\* reset day, the same categories and the same (task, date) facts.
C34_TransitionPreservesData ==
    [][(resp'.op = "migrate" /\ ListeningGen1) =>
          /\ tasks' = {KeptColumns(t) : t \in tasks}
          /\ categories' = categories
          /\ Facts(resp'.migrated) = Facts(completions)
          /\ \A r \in DOMAIN resp'.migrated : resp'.migrated[r] = 1
      ]_vars

\* The final server has started on such a file with two tasks, a task with
\* the flag set and facts in the ledger.
C34_Witness ==
    /\ resp.op = "migrate"
    /\ resp.found.hasCompleted
    /\ resp.found.hasLedgerUserId
    /\ ~schema.hasCompleted
    /\ Cardinality(tasks) = 2
    /\ Cardinality(DOMAIN resp.migrated) >= 2

\* The shape of the final schema: categories and tasks carry the owner,
\* tasks the category and the reset day and neither completed nor
\* last_completed, and task_completions exists without user_id.
GenTwoShape ==
    /\ MigrationDone
    /\ ~schema.hasChildId
    /\ \A t \in tasks :
          DOMAIN t = {"id", "user_id", "title", "frequency", "category_id",
                      "reset_day"}

\* C33: while the final server listens, its database has the shape of the
\* final schema, whichever earlier server wrote the file it was started on.
C33_GenTwoWhenListening ==
    phase = "listening" => GenTwoShape

\* C36: the handler of a toggle runs whole between the steps of any other
\* request: what its check finds is what the ledger holds when it writes,
\* its write is the ledger step of a toggle on the ledger it started from;
\* and when two toggles of one task on one day have been handled, in
\* either order of arrival and of handling, the ledger is what it was
\* before the first of them arrived.
C36_TogglePairRestoresLedger ==
    pre.op = "requests" =>
        /\ \A n \in 1..Len(pre.handled) :
              LET h == pre.handled[n] IN
              h.status = 200 =>
                 /\ h.found = ([task_id |-> h.id, completed_date |-> h.today]
                                 \in Rows(h.from))
                 /\ h.to = ToggleCompletion(h.from, h.id, h.today)
        /\ (/\ Len(pre.handled) = 2
            /\ pre.handled[1].status = 200
            /\ pre.handled[2].status = 200
            /\ pre.handled[1].id = pre.handled[2].id
            /\ pre.handled[1].today = pre.handled[2].today)
           => completions = pre.before

\* Two toggles of one task were in flight together, the one that arrived
\* second was handled first, and both have been handled.
C36_Witness ==
    /\ pre.op = "requests"
    /\ Len(pre.handled) = 2
    /\ pre.handled[1].status = 200
    /\ pre.handled[2].status = 200
    /\ pre.handled[1].id = pre.handled[2].id
    /\ pre.handled[1].from = pre.before
    /\ pre.handled[2].from # pre.before
    /\ pre.handled[1].client = "b"
    /\ req.op = "toggle"

\* The day one calendar month before a day: the same day of the month
\* before, or that month's last day where it has no such day.
OneMonthBefore(date) ==
    LET first == NewDate(getFullYear(date), getMonth(date) - 1, 1)
        last  == AddDays(NewDate(getFullYear(date), getMonth(date), 1), 0 - 1)
    IN  IF getDate(date) > getDate(last) THEN last
        ELSE <<first[1], first[2], getDate(date)>>

\* C32: in the list of the first server every task returned with completed
\* set has a timestamp, not later than the instant of the list, and for a
\* daily task of the same calendar day, for a weekly task not more than 7
\* days before that instant, for a monthly task not more than one calendar
\* month before it; every returned row is the stored row; and the list
\* leaves every one-time task as it was.
C32_ListWindowGen0 ==
    [][resp'.op = "listGen0" =>
          /\ \A t \in resp'.tasks :
                t.completed # 0 =>
                   /\ t.last_completed # NULL
                   /\ LET at == resp'.at
                          lastCompleted == DateOf(t.last_completed[1])
                      IN  /\ ~Before(at, lastCompleted)
                          /\ t.frequency = "daily" => lastCompleted[1] = at[1]
                          /\ t.frequency = "weekly" =>
                                ~Before(lastCompleted, <<AddDays(at[1], 0 - 7), at[2]>>)
                          /\ t.frequency = "monthly" =>
                                ~Before(lastCompleted, <<OneMonthBefore(at[1]), at[2]>>)
          /\ resp'.tasks \subseteq tasks'
          /\ \A t \in tasks : t.frequency = "one-time" => t \in tasks'
      ]_vars

\* A list has returned a daily task that a list has reset, with the
\* timestamp of an earlier day, and, with completed set, a weekly task
\* completed at the same time of day seven days earlier.
C32_Witness ==
    /\ resp.op = "listGen0"
    /\ \E t \in resp.tasks :
          /\ t.frequency = "daily"
          /\ t.completed = 0
          /\ t.last_completed # NULL
    /\ \E t \in resp.tasks :
          /\ t.frequency = "weekly"
          /\ t.completed = 1
          /\ DateOf(t.last_completed[1]) = <<AddDays(resp.at[1], 0 - 7), resp.at[2]>>

====
